---- MODULE Spec2Model ----
(***************************************************************************)
(* A model of cas2json: the CAMS/KFintech and depository statement engines. *)
(*                                                                         *)
(*   Spec        the detailed fold (CASProcessor.process_detailed_version) *)
(*               followed by the optional Balance Reconciler of            *)
(*               parse_cams_pdf                                            *)
(*   SpecTxn     TransactionData construction and get_transaction_type     *)
(*   SpecRecon   the Balance Reconciler applied to one scheme              *)
(*   SpecSummary the summary fold (CASProcessor.process_summary_version)   *)
(*   SpecParse   parse_cams_pdf: opening, classification and dispatch      *)
(*   SpecLines   CASParser.recover_lines and get_header_positions          *)
(*   SpecValues  the values of the transactions of one line                *)
(*               (CASProcessor.extract_transactions)                       *)
(*   SpecDemat   pass 1 of CDSLProcessor.process_statement: the demat      *)
(*               accounts and the buffers of table words                   *)
(*   SpecTable   CDSLProcessor.recover_table_lines                         *)
(*   SpecSchemes pass 2 of CDSLProcessor.process_statement for one buffer  *)
(*               (extract_scheme_details)                                  *)
(*   SpecPaged   process_detailed_version with the page of each line, the  *)
(*               headers given to extract_transactions and the schemes     *)
(*               that took transactions ahead of their header tracked      *)
(*   SpecPages   CASParser.parse_pdf: the pages of a document, their lines *)
(*               and headers computed in any interleaving                  *)
(*                                                                         *)
(* Decimal values are integers (exact arithmetic, as Decimal is).  An      *)
(* optional number is <<>> (None) or <<n>>; an optional string is "None"   *)
(* or the string; an optional object is <<>> or <<object>>.                *)
(***************************************************************************)
EXTENDS Integers, Sequences, FiniteSets, TLC

VARIABLES
    \* ---- process_detailed_version + parse_cams_pdf
    pc,                 \* "fold" | "folded" | "returned" | "raised"
    nlines,             \* lines consumed so far
    line,               \* the line the last step of the fold consumed
    peek,               \* what the next line of the page holds for SCHEME (lookahead of the join)
    current_amc, current_folio, current_pan, current_scheme, current_registrar,
    schemes,            \* the fold's output list
    created,            \* Scheme objects constructed so far (object identity)
    error,              \* exception that left the function, "None" if none
    result,             \* what parse_cams_pdf hands to its caller: <<>> or <<list>>
    fold_page,           \* pages of document_data the loop has started
    txn_headers,        \* the page whose headers_data extract_transactions was given last
    ahead,              \* history: the schemes that took the transactions of a line
                        \* before the line of their header
    \* ---- TransactionData / get_transaction_type
    tx_in, tx_out,
    \* ---- Balance Reconciler on one scheme
    rc_in, rc_out, rc_runs,
    \* ---- process_summary_version
    sm_pc, sm_page, sm_schemes, sm_current, sm_folio, sm_rows, sm_lines,
    sm_total,           \* history: a Total line was read after a row had been seen
    sm_line,            \* the line of the page the loop read last
    \* ---- parse_cams_pdf: CASParser, classification and dispatch
    ps_pc,              \* "idle" | "start" | "opened" | "parsed" | "detailed" | "summary" | "returned" | "raised"
    ps_input,           \* the filename object and the document behind it
    ps_blocks,          \* text blocks of the first page
    ps_file_type, ps_file_version,
    ps_ran,             \* state machines entered so far
    ps_error,           \* exception that left parse_cams_pdf, "None" if none
    \* ---- CASParser.recover_lines / get_header_positions on one page
    rl_pc,              \* "idle" | "page" | "headers" | "scan" | "done"
    rl_words,           \* the page's words, in extraction order
    rl_i,               \* index of the next word of the loop
    rl_line, rl_lrect,  \* current line and its rectangle
    rl_lines,           \* lines closed so far
    rl_out,             \* what the generator yields
    rl_headers,         \* get_header_positions(words)
    \* ---- CASProcessor.extract_transactions: values of the transactions of one line
    tv_pc,              \* "idle" | "line" | "resolve" | "assigned" | "done"
    tv_line,            \* the line's words as handed in
    tv_words,           \* word_rects: the words not consumed yet
    tv_headers,         \* headers of the page
    tv_txns,            \* the tokens of each transaction of the line
    tv_t, tv_k,         \* current transaction and token
    tv_values,          \* txn_values of the current transaction
    tv_out,             \* txn_values of the transactions built
    tv_used,            \* which word each token was resolved against
    \* ---- CDSLProcessor.process_statement, pass 1
    dm_pc,              \* "idle" | "lines" | "done"
    dm_doc,             \* document_data: the pages of the document
    dm_pageno,          \* page
    dm_page,            \* page_lines_data: the lines of the current page
    dm_n,               \* lines consumed
    dm_accounts,        \* the DematAccount objects created, by identity
    dm_lists,           \* the holder list objects created, by identity
    dm_demats,          \* demats: key -> identity of its account
    dm_current,         \* current_demat: identity of an account, 0 for None
    dm_holders,         \* holders: identity of a list
    dm_process,         \* process_demats
    dm_table,           \* process_table
    dm_scheme_type,     \* scheme_type
    dm_tables,          \* table_data: key -> the words buffered under it
    dm_out,             \* the accounts returned
    \* ---- CDSLProcessor.recover_table_lines
    tb_pc,              \* "idle" | "words" | "done"
    tb_words,           \* the buffered words
    tb_i,               \* words consumed
    tb_lrects,          \* lrects
    tb_line_words,      \* line_words
    tb_out,             \* the texts yielded
    \* ---- CDSLProcessor.process_statement, pass 2, for one buffer
    sd_pc,              \* "idle" | "rows" | "done" | "raised"
    sd_key,             \* the key of the buffer
    sd_rows,            \* the rows recovered from the buffer
    sd_i,               \* rows consumed
    sd_schemes,         \* schemes
    sd_error,           \* the exception that ended the pass, "None" if none
    \* ---- CASParser.parse_pdf: the pages of the document
    pg_pc,              \* "idle" | "pages" | "assembled"
    pg_nsdl,            \* metadata["file_type"] == FileType.NSDL
    pg_words,           \* the words of each page of the document
    pg_job,             \* per page: the state of its recover_lines and get_header_positions
    pg_doc              \* document_data

pageVars == <<fold_page, txn_headers, ahead>>
foldVars == <<pc, nlines, line, peek, current_amc, current_folio, current_pan, current_scheme,
              current_registrar, schemes, created, error, result, pageVars>>
txVars == <<tx_in, tx_out>>
rcVars == <<rc_in, rc_out, rc_runs>>
smVars == <<sm_pc, sm_page, sm_schemes, sm_current, sm_folio, sm_rows, sm_lines, sm_total, sm_line>>
psVars == <<ps_pc, ps_input, ps_blocks, ps_file_type, ps_file_version, ps_ran, ps_error>>
rlVars == <<rl_pc, rl_words, rl_i, rl_line, rl_lrect, rl_lines, rl_out, rl_headers>>
tvVars == <<tv_pc, tv_line, tv_words, tv_headers, tv_txns, tv_t, tv_k, tv_values, tv_out, tv_used>>
dmVars == <<dm_pc, dm_doc, dm_pageno, dm_page, dm_n, dm_accounts, dm_lists, dm_demats,
           dm_current, dm_holders, dm_process, dm_table, dm_scheme_type, dm_tables, dm_out>>
tbVars == <<tb_pc, tb_words, tb_i, tb_lrects, tb_line_words, tb_out>>
sdVars == <<sd_pc, sd_key, sd_rows, sd_i, sd_schemes, sd_error>>
pgVars == <<pg_pc, pg_nsdl, pg_words, pg_job, pg_doc>>
otherVars == <<psVars, rlVars, tvVars, dmVars, tbVars, sdVars, pgVars>>
vars == <<foldVars, txVars, rcVars, smVars, otherVars>>

----------------------------------------------------------------------------
(* Bounds of the model *)

MaxLines == 4          \* lines of a detailed statement
MaxKeywords == 2       \* keywords one transaction description carries
MaxTxns == 3           \* transactions of a scheme handed to the Reconciler
MaxSummaryLines == 4   \* lines of a summary statement
MaxSummaryPages == 2   \* pages of a summary statement

----------------------------------------------------------------------------
(* Optional values *)

None == "None"
Null == <<>>
Num(n) == <<n>>
Val(x) == x[1]
OrZero(x) == IF x = Null THEN 0 ELSE x[1]
Abs(n) == IF n < 0 THEN -n ELSE n

RECURSIVE SumUnits(_)
SumUnits(txns) ==
    IF txns = <<>> THEN 0 ELSE OrZero(Head(txns).units) + SumUnits(Tail(txns))

----------------------------------------------------------------------------
(* Transaction types and classification *)

TransactionTypes ==
    {"DIVIDEND_REINVEST", "DIVIDEND_PAYOUT", "STT_TAX", "STAMP_DUTY_TAX", "TDS_TAX", "MISC",
     "SWITCH_IN_MERGER", "SWITCH_IN", "SEGREGATION", "PURCHASE_SIP", "PURCHASE",
     "REVERSAL", "SWITCH_OUT_MERGER", "SWITCH_OUT", "REDEMPTION", "UNKNOWN"}

\* What the description tests of get_transaction_type can see in a description.
\* "instalment" is re.search("instal+ment"), "sys_invest" is re.search("sys.+?invest"),
\* "reversal" is the reversal|rejection|dishonoured|mismatch|insufficient balance
\* pattern, "misc" is `keyword in description` for some MISCELLANEOUS_KEYWORDS entry.
Keywords ==
    {"stt", "stamp", "tds", "switch", "merger", "segregat", "sip", "systematic",
     "instalment", "sys_invest", "reversal", "misc"}

\* patterns.DIVIDEND on the description: no match, or (reinvest_flag, dividend_str)
DividendMatches ==
    {[found |-> FALSE, reinvest |-> FALSE, rate |-> 0],
     [found |-> TRUE, reinvest |-> TRUE, rate |-> 250],
     [found |-> TRUE, reinvest |-> FALSE, rate |-> 100]}

Descriptions ==
    {[div |-> d, kw |-> k] : d \in DividendMatches,
                             k \in {s \in SUBSET Keywords : Cardinality(s) <= MaxKeywords}}

TxnResult(t, r) == [type |-> t, dividend_rate |-> r]

get_transaction_type_SwitchFirst(description, units) ==
    IF description.div.found
    THEN TxnResult(IF description.div.reinvest THEN "DIVIDEND_REINVEST" ELSE "DIVIDEND_PAYOUT",
                   Num(description.div.rate))
    ELSE IF units = Null
    THEN IF "stt" \in description.kw THEN TxnResult("STT_TAX", Null)
         ELSE IF "stamp" \in description.kw THEN TxnResult("STAMP_DUTY_TAX", Null)
         ELSE IF "tds" \in description.kw THEN TxnResult("TDS_TAX", Null)
         ELSE TxnResult("MISC", Null)
    ELSE IF Val(units) > 0
    THEN IF "switch" \in description.kw
         THEN TxnResult(IF "merger" \in description.kw THEN "SWITCH_IN_MERGER" ELSE "SWITCH_IN", Null)
         ELSE IF "segregat" \in description.kw THEN TxnResult("SEGREGATION", Null)
         ELSE IF description.kw \cap {"sip", "systematic", "instalment", "sys_invest"} # {}
         THEN TxnResult("PURCHASE_SIP", Null)
         ELSE TxnResult("PURCHASE", Null)
    ELSE IF Val(units) < 0
    THEN IF "switch" \in description.kw
         THEN TxnResult(IF "merger" \in description.kw THEN "SWITCH_OUT_MERGER" ELSE "SWITCH_OUT", Null)
         ELSE IF "reversal" \in description.kw THEN TxnResult("REVERSAL", Null)
         ELSE TxnResult("REDEMPTION", Null)
    ELSE IF "misc" \in description.kw THEN TxnResult("MISC", Null)
    ELSE TxnResult("UNKNOWN", Null)

get_transaction_type(description, units) ==
    IF description.div.found
    THEN TxnResult(IF description.div.reinvest THEN "DIVIDEND_REINVEST" ELSE "DIVIDEND_PAYOUT",
                   Num(description.div.rate))
    ELSE IF units = Null
    THEN IF "stt" \in description.kw THEN TxnResult("STT_TAX", Null)
         ELSE IF "stamp" \in description.kw THEN TxnResult("STAMP_DUTY_TAX", Null)
         ELSE IF "tds" \in description.kw THEN TxnResult("TDS_TAX", Null)
         ELSE TxnResult("MISC", Null)
    ELSE IF Val(units) > 0
    THEN IF "switch" \in description.kw
         THEN TxnResult(IF "merger" \in description.kw THEN "SWITCH_IN_MERGER" ELSE "SWITCH_IN", Null)
         ELSE IF "segregat" \in description.kw THEN TxnResult("SEGREGATION", Null)
         ELSE IF description.kw \cap {"sip", "systematic", "instalment", "sys_invest"} # {}
         THEN TxnResult("PURCHASE_SIP", Null)
         ELSE TxnResult("PURCHASE", Null)
    ELSE IF Val(units) < 0
    THEN IF "reversal" \in description.kw THEN TxnResult("REVERSAL", Null)
         ELSE IF "switch" \in description.kw
         THEN TxnResult(IF "merger" \in description.kw THEN "SWITCH_OUT_MERGER" ELSE "SWITCH_OUT", Null)
         ELSE TxnResult("REDEMPTION", Null)
    ELSE IF "misc" \in description.kw THEN TxnResult("MISC", Null)
    ELSE TxnResult("UNKNOWN", Null)

\* constants.HOLDINGS_CASHFLOW[type].value: the cash-flow direction of a type
HOLDINGS_CASHFLOW(type) ==
    IF type \in {"PURCHASE", "PURCHASE_SIP", "DIVIDEND_REINVEST", "SWITCH_IN",
                 "SWITCH_IN_MERGER", "SEGREGATION", "MISC", "UNKNOWN"}
    THEN 1 ELSE -1

\* TransactionData.__post_init__ on the amount
PostInitAmount_NoDirection(type, amount, units) ==
    IF amount = Null THEN Null
    ELSE IF units = Null THEN Num(Abs(Val(amount)))
    ELSE Num((IF Val(units) > 0 THEN 1 ELSE -1) * Abs(Val(amount)))

PostInitAmount(type, amount, units) ==
    IF amount = Null THEN Null
    ELSE IF units = Null THEN Num(HOLDINGS_CASHFLOW(type) * Val(amount))
    ELSE Num((IF Val(units) > 0 THEN 1 ELSE -1) * Abs(Val(amount)))

TransactionData(date, description, type, amount, units, nav, balance, dividend_rate) ==
    [date |-> date, description |-> description, type |-> type,
     amount |-> PostInitAmount(type, amount, units),
     units |-> units, nav |-> nav, balance |-> balance, dividend_rate |-> dividend_rate]

\* utils.formatINR on a numeric token: a token is Null (no token, or a placeholder
\* dash) or [paren, mag]; a parenthesised token is negative unless negative=False.
formatINR(tok, negative) ==
    IF tok = Null THEN Null
    ELSE IF Val(tok).paren /\ negative THEN Num(-Val(tok).mag) ELSE Num(Val(tok).mag)

Tok(p, m) == Num([paren |-> p, mag |-> m])

\* The body of the loop of extract_transactions once the numeric tokens of one
\* matched transaction are assigned to amount/units/nav/balance (txn_values).
BuildTransaction(date, description, txn_values) ==
    LET units == formatINR(txn_values.units, TRUE)
        tt == get_transaction_type(description, units)
    IN TransactionData(date, description, tt.type,
                       formatINR(txn_values.amount, FALSE), units,
                       formatINR(txn_values.nav, TRUE), formatINR(txn_values.balance, TRUE),
                       tt.dividend_rate)

----------------------------------------------------------------------------
(* SpecTxn: one transaction built from its tokens, or constructed directly *)

UnitTokens == {Null, Tok(FALSE, 0), Tok(FALSE, 3), Tok(TRUE, 3)}
AmountTokens == {Null, Tok(FALSE, 0), Tok(FALSE, 5), Tok(TRUE, 5)}

TxIdle == [op |-> "idle"]

\* extract_transactions on one matched transaction of a line
ExtractInputs ==
    {[op |-> "extract", description |-> d, units |-> u, amount |-> a] :
        d \in Descriptions, u \in UnitTokens, a \in AmountTokens}

\* TransactionData(...) called with values of the caller's choice
DirectInputs ==
    {[op |-> "direct", type |-> t, given_units |-> u, given_amount |-> a] :
        t \in TransactionTypes, u \in {Null, Num(-3), Num(0), Num(3)},
        a \in {Null, Num(-5), Num(0), Num(5)}}

TxInit == /\ tx_in \in ExtractInputs \cup DirectInputs
          /\ tx_out = <<>>

ExtractTransaction ==
    /\ tx_in.op = "extract"
    /\ tx_out = <<>>
    /\ tx_out' = <<BuildTransaction(1, tx_in.description,
                       [amount |-> tx_in.amount, units |-> tx_in.units,
                        nav |-> Null, balance |-> Null])>>
    /\ UNCHANGED tx_in

NewTransactionData ==
    /\ tx_in.op = "direct"
    /\ tx_out = <<>>
    /\ tx_out' = <<TransactionData(1, "d", tx_in.type, tx_in.given_amount,
                                   tx_in.given_units, Null, Null, Null)>>
    /\ UNCHANGED tx_in


\* the amount and units handed to the TransactionData constructor
TxGivenAmount ==
    IF tx_in.op = "extract" THEN formatINR(tx_in.amount, FALSE) ELSE tx_in.given_amount
TxGivenUnits ==
    IF tx_in.op = "extract" THEN formatINR(tx_in.units, TRUE) ELSE tx_in.given_units

----------------------------------------------------------------------------
(* The Balance Reconciler of parse_cams_pdf *)

\* sorted(transactions, key=lambda x: x.date): a stable sort, computed by insertion
\* of each element, in list order, behind the elements whose date is not later.
RECURSIVE InsertByDate_BeforeEqual(_, _)
InsertByDate_BeforeEqual(s, t) ==
    IF s = <<>> THEN <<t>>
    ELSE IF Head(s).date < t.date THEN <<Head(s)>> \o InsertByDate_BeforeEqual(Tail(s), t)
    ELSE <<t>> \o s

RECURSIVE InsertByDate(_, _)
InsertByDate(s, t) ==
    IF s = <<>> THEN <<t>>
    ELSE IF Head(s).date <= t.date THEN <<Head(s)>> \o InsertByDate(Tail(s), t)
    ELSE <<t>> \o s

RECURSIVE sorted_by_date(_)
sorted_by_date(txns) ==
    IF txns = <<>> THEN <<>>
    ELSE InsertByDate(sorted_by_date(SubSeq(txns, 1, Len(txns) - 1)), txns[Len(txns)])

\* for transaction in sorted_transactions: balance += units or 0; transaction.balance = balance
\* every balance the opening units plus the units of its own transaction
RECURSIVE recompute_balances_NotRunning(_, _)
recompute_balances_NotRunning(txns, balance) ==
    IF txns = <<>> THEN <<>>
    ELSE <<[Head(txns) EXCEPT !.balance = Num(balance + OrZero(Head(txns).units))]>>
            \o recompute_balances_NotRunning(Tail(txns), balance)

RECURSIVE recompute_balances(_, _)
recompute_balances(txns, balance) ==
    IF txns = <<>> THEN <<>>
    ELSE LET b == balance + OrZero(Head(txns).units)
         IN <<[Head(txns) EXCEPT !.balance = Num(b)]>> \o recompute_balances(Tail(txns), b)

sort_scheme_transactions_Always(scheme) ==
    [scheme EXCEPT !.transactions =
        recompute_balances(sorted_by_date(scheme.transactions), OrZero(scheme.open))]

\* the body of `for scheme in schemes:` under `if sort_transactions:`
sort_scheme_transactions(scheme) ==
    LET sorted_transactions == sorted_by_date(scheme.transactions)
    IN IF scheme.transactions # sorted_transactions
       THEN [scheme EXCEPT !.transactions =
                recompute_balances(sorted_transactions, OrZero(scheme.open))]
       ELSE scheme

sort_all_UnitsToo(list) ==
    [i \in 1..Len(list) |->
        LET r == sort_scheme_transactions(list[i])
        IN [r EXCEPT !.transactions =
               [j \in 1..Len(r.transactions) |->
                   [r.transactions[j] EXCEPT !.units = r.transactions[j].balance]]]]

sort_all(list) == [i \in 1..Len(list) |-> sort_scheme_transactions(list[i])]

----------------------------------------------------------------------------
(* Scheme objects *)

\* Scheme(...) as process_detailed_version constructs it.  id is the identity of the
\* object (the count of constructions); open_at is the length of transactions when
\* open was last assigned.  isin, rta_code and advisor are copied from the header
\* line and never read again; they are left out.
Scheme(id, scheme_name, amc, pan, folio, open, close, close_calculated, valuation) ==
    [id |-> id, scheme_name |-> scheme_name, amc |-> amc, pan |-> pan, folio |-> folio,
     rta |-> None, open |-> open, close |-> close, close_calculated |-> close_calculated,
     valuation |-> valuation, nominees |-> <<>>, transactions |-> <<>>, open_at |-> 0]

SchemeValuation(date, value, nav, cost) ==
    [date |-> date, value |-> value, nav |-> nav, cost |-> cost]

----------------------------------------------------------------------------
(* SpecRecon: the Reconciler applied, and applied again, to one scheme *)

RcDates == {1, 2}
RcTransactions ==
    {TransactionData(d, "t", "MISC", Null, u, Null, b, Null) :
        d \in RcDates, u \in {Null, Num(1), Num(-1)}, b \in {Null, Num(7)}}

RECURSIVE SeqsUpTo(_, _)
SeqsUpTo(S, n) ==
    IF n = 0 THEN {<<>>}
    ELSE LET shorter == SeqsUpTo(S, n - 1)
         IN shorter \cup {Append(q, x) : q \in {r \in shorter : Len(r) = n - 1}, x \in S}

RcSchemes ==
    {[Scheme(1, "S1", None, None, "F1", o, Num(0), Num(0),
             SchemeValuation("to", Num(0), Num(0), Null))
        EXCEPT !.transactions = t] :
        o \in {Null, Num(2)}, t \in SeqsUpTo(RcTransactions, MaxTxns)}

RcIdle == Scheme(0, "idle", None, None, None, Null, Null, Null, None)

RcInit == /\ rc_in \in RcSchemes
          /\ rc_out = <<>>
          /\ rc_runs = 0

\* one pass of the Reconciler over the scheme (the first on the fold's scheme, a
\* later one on the scheme the previous pass left)
Reconcile ==
    /\ rc_runs < 2
    /\ rc_out' = Append(rc_out,
                   sort_scheme_transactions(IF rc_out = <<>> THEN rc_in ELSE rc_out[Len(rc_out)]))
    /\ rc_runs' = rc_runs + 1
    /\ UNCHANGED rc_in


----------------------------------------------------------------------------
(* Lines of a detailed statement, as the extractors of CASProcessor see them *)

\* what extract_scheme_valuation finds on a line
NoVal == [close |-> Null, cost |-> Null, vdate |-> None, value |-> Null,
          ndate |-> None, nav |-> Null]

\* A line is what each pattern finds on it:
\*   amc        extract_amc(line)
\*   folio, pan extract_folio_pan: patterns.FOLIO group 1 and patterns.PAN on that line
\*   scheme     the scheme name patterns.SCHEME finds on the line alone
\*   split      the scheme name patterns.SCHEME finds only on the line joined with the
\*              next line of its page (a long name printed on two lines)
\*   registrar  extract_registrar(line)
\*   nominees   extract_nominees(line); non-empty iff patterns.NOMINEE is found
\*   open       extract_open_units(line)
\*   txns       extract_transactions(line, words, headers of the page)
\*   val        the close/cost/valuation/nav patterns of extract_scheme_valuation
Blank ==
    [amc |-> None, folio |-> None, pan |-> None, scheme |-> None, split |-> None,
     registrar |-> None, nominees |-> <<>>, open |-> Null, txns |-> <<>>, val |-> NoVal]

Folios == {"F1", "F2"}
SchemeNames == {"S1", "S2"}

TxnValues(amount, units, balance) ==
    [amount |-> amount, units |-> units, nav |-> Null, balance |-> balance]
Plain(kw) == [div |-> [found |-> FALSE, reinvest |-> FALSE, rate |-> 0], kw |-> kw]

TxnBuy == BuildTransaction(2, Plain({}), TxnValues(Tok(FALSE, 5), Tok(FALSE, 1), Tok(FALSE, 9)))
TxnSell == BuildTransaction(1, Plain({}), TxnValues(Tok(FALSE, 5), Tok(TRUE, 2), Tok(FALSE, 7)))
TxnTax == BuildTransaction(1, Plain({"stt"}), TxnValues(Tok(FALSE, 5), Null, Null))

TxnLists == {<<TxnBuy>>, <<TxnSell>>, <<TxnTax>>, <<TxnBuy, TxnSell>>}

CloseVal == [NoVal EXCEPT !.close = Num(3)]
PackedVal == [close |-> Num(3), cost |-> Num(6), vdate |-> "D1", value |-> Num(12),
              ndate |-> "D2", nav |-> Num(4)]

\* lines one pattern matches
SingleLines ==
    {Blank, [Blank EXCEPT !.amc = "A1"],
     [Blank EXCEPT !.registrar = "R1"], [Blank EXCEPT !.registrar = "R2"],
     [Blank EXCEPT !.nominees = <<"N1">>], [Blank EXCEPT !.split = "S1"],
     [Blank EXCEPT !.val = CloseVal], [Blank EXCEPT !.val = PackedVal]}
    \cup {[Blank EXCEPT !.folio = f, !.pan = p] : f \in Folios, p \in {None, "P1"}}
    \cup {[Blank EXCEPT !.scheme = n] : n \in SchemeNames}
    \cup {[Blank EXCEPT !.open = o] : o \in {Num(0), Num(2)}}
    \cup {[Blank EXCEPT !.txns = t] : t \in TxnLists}

\* lines several patterns match
MixedLines ==
    {[Blank EXCEPT !.amc = "A1", !.folio = "F1"],
     [Blank EXCEPT !.folio = "F1", !.scheme = "S1"],
     [Blank EXCEPT !.scheme = "S1", !.registrar = "R1"],
     [Blank EXCEPT !.registrar = "R1", !.txns = <<TxnBuy>>],
     [Blank EXCEPT !.nominees = <<"N1">>, !.txns = <<TxnBuy>>],
     [Blank EXCEPT !.open = Num(2), !.txns = <<TxnBuy>>],
     [Blank EXCEPT !.open = Num(0), !.txns = <<TxnBuy>>],
     [Blank EXCEPT !.txns = <<TxnSell>>, !.val = CloseVal]}

Lines == SingleLines \cup MixedLines

\* What the next line of the page holds for patterns.SCHEME on its own: "eop" when
\* the line is the last of its page, else None or a scheme name.
Lookaheads == {"eop", None} \cup SchemeNames

----------------------------------------------------------------------------
(* process_detailed_version: one iteration of the loop over the lines *)

Context(amc, folio, pan, scheme, registrar, list, n) ==
    [amc |-> amc, folio |-> folio, pan |-> pan, scheme |-> scheme,
     registrar |-> registrar, schemes |-> list, created |-> n]

finalize_current_scheme_KeepCurrent(c) ==
    [c EXCEPT !.schemes = c.schemes \o c.scheme]

finalize_current_scheme(c) ==
    [c EXCEPT !.schemes = c.schemes \o c.scheme, !.scheme = <<>>]

extract_folio_pan(l, folio) ==
    IF l.folio # None THEN <<l.folio, l.pan>> ELSE <<folio, None>>

\* extract_scheme_details(scheme_line): the name found on the line, joined with the
\* next line of the page unless the line is the last of its page or a nominee line.
\* A search of the joined text finds the header of the line itself first, then a
\* header formed by the two lines, then the header of the next line.
scheme_line_details(l, nxt) ==
    IF nxt = "eop" \/ l.nominees # <<>> THEN l.scheme
    ELSE IF l.scheme # None THEN l.scheme
    ELSE IF l.split # None THEN l.split
    ELSE nxt

StatementTo == "to"

scheme_rule_KeepPending(c, name) ==
    LET c1 == IF c.scheme # <<>> /\ c.scheme[1].scheme_name # name
              THEN finalize_current_scheme(c) ELSE c
        s == Scheme(c.created + 1, name, c.amc, c.pan, c.folio, Num(0), Num(0), Num(0),
                    SchemeValuation(StatementTo, Num(0), Num(0), Null))
    IN [c1 EXCEPT !.scheme = <<IF c.registrar # None THEN [s EXCEPT !.rta = c.registrar] ELSE s>>,
                  !.created = @ + 1]

\* lines 215-235: a scheme header under an active folio
scheme_rule(c, name) ==
    LET c1 == IF c.scheme # <<>> /\ c.scheme[1].scheme_name # name
              THEN finalize_current_scheme(c) ELSE c
        s == Scheme(c.created + 1, name, c.amc, c.pan, c.folio, Num(0), Num(0), Num(0),
                    SchemeValuation(StatementTo, Num(0), Num(0), Null))
    IN [c1 EXCEPT !.scheme = <<IF c.registrar # None THEN [s EXCEPT !.rta = c.registrar] ELSE s>>,
                  !.created = @ + 1,
                  !.registrar = None]

\* lines 238-243
registrar_rule(c, registrar) ==
    IF c.scheme # <<>> THEN [c EXCEPT !.scheme[1].rta = registrar]
    ELSE [c EXCEPT !.registrar = registrar]

\* lines 252-255
open_rule(s, open_units) ==
    [s EXCEPT !.open = open_units, !.close_calculated = open_units,
              !.open_at = Len(s.transactions)]

\* lines 257-261
transactions_rule_LastOnly(s, parsed_txns) ==
    [s EXCEPT !.close_calculated = Num(Val(@) + OrZero(parsed_txns[Len(parsed_txns)].units)),
              !.transactions = @ \o parsed_txns]

transactions_rule(s, parsed_txns) ==
    [s EXCEPT !.close_calculated = Num(Val(@) + SumUnits(parsed_txns)),
              !.transactions = @ \o parsed_txns]

extract_scheme_valuation(l, s) ==
    LET v == l.val
        s1 == IF v.close # Null THEN [s EXCEPT !.close = v.close] ELSE s
        s2 == IF v.cost # Null THEN [s1 EXCEPT !.valuation.cost = v.cost] ELSE s1
        s3 == IF v.value # Null
              THEN [s2 EXCEPT !.valuation.date = v.vdate, !.valuation.value = v.value] ELSE s2
    IN IF v.nav # Null
       THEN [s3 EXCEPT !.valuation.date = v.ndate, !.valuation.nav = v.nav] ELSE s3

Truthy(x) == x # Null /\ Val(x) # 0

Ok(c) == [raised |-> FALSE, ctx |-> c]
Raise(c) == [raised |-> TRUE, ctx |-> c]

folio_rule_KeepScheme(c, folio_pan) ==
    [c EXCEPT !.folio = folio_pan[1], !.pan = folio_pan[2]]

\* lines 203-204
folio_rule(c, folio_pan) ==
    [finalize_current_scheme(c) EXCEPT !.folio = folio_pan[1], !.pan = folio_pan[2]]

scheme_guard_None(c, name) == FALSE

\* line 213
scheme_guard(c, name) == name # None /\ c.folio = None

lower_rules_SchemeEndsLine(c, l, nxt) ==
    LET name == scheme_line_details(l, nxt)
    IN IF scheme_guard(c, name) THEN Raise(c)
       ELSE IF name # None THEN Ok(scheme_rule(c, name))
       ELSE IF l.registrar # None THEN Ok(registrar_rule(c, l.registrar))
       ELSE IF c.scheme = <<>> THEN Ok(c)
       ELSE IF l.nominees # <<>>
       THEN Ok([c EXCEPT !.scheme[1].nominees = @ \o l.nominees])
       ELSE IF Truthy(l.open)
       THEN Ok([c EXCEPT !.scheme[1] = open_rule(@, l.open)])
       ELSE LET s1 == IF l.txns # <<>> THEN transactions_rule(c.scheme[1], l.txns)
                                       ELSE c.scheme[1]
            IN Ok([c EXCEPT !.scheme[1] = extract_scheme_valuation(l, s1)])

\* lines 206-263: the rules below the folio rule
lower_rules(c, l, nxt) ==
    LET name == scheme_line_details(l, nxt)
    IN IF scheme_guard(c, name) THEN Raise(c)
       ELSE LET c1 == IF name # None THEN scheme_rule(c, name) ELSE c
            IN IF l.registrar # None THEN Ok(registrar_rule(c1, l.registrar))
               ELSE IF c1.scheme = <<>> THEN Ok(c1)
               ELSE IF l.nominees # <<>>
               THEN Ok([c1 EXCEPT !.scheme[1].nominees = @ \o l.nominees])
               ELSE IF Truthy(l.open)
               THEN Ok([c1 EXCEPT !.scheme[1] = open_rule(@, l.open)])
               ELSE LET s1 == IF l.txns # <<>> THEN transactions_rule(c1.scheme[1], l.txns)
                                               ELSE c1.scheme[1]
                    IN Ok([c1 EXCEPT !.scheme[1] = extract_scheme_valuation(l, s1)])

\* the line holds a scheme header, whole or its first half
HeaderOnLine(l) == l.scheme # None \/ l.split # None

\* line 257 is reached: extract_transactions is called for the line
calls_extract_transactions(c, l, nxt) ==
    LET name == scheme_line_details(l, nxt)
    IN /\ l.amc = None
       /\ c.folio = extract_folio_pan(l, c.folio)[1]
       /\ ~scheme_guard(c, name)
       /\ l.registrar = None
       /\ (name # None \/ c.scheme # <<>>)
       /\ l.nominees = <<>>
       /\ ~Truthy(l.open)

\* line 257: headers=page_data.headers_data, of the page of the loop
headers_of_FirstPage(n) == 1
headers_of(n) == n

fold_line_AmcFallsThrough(c, l, nxt) ==
    LET c0 == IF l.amc # None THEN [c EXCEPT !.amc = l.amc] ELSE c
    IN IF c0.folio # extract_folio_pan(l, c0.folio)[1]
       THEN Ok(folio_rule(c0, extract_folio_pan(l, c0.folio)))
       ELSE lower_rules(c0, l, nxt)

\* lines 197-263: the body of `for idx, (line, word_rects) in enumerate(page_lines_data)`
fold_line(c, l, nxt) ==
    IF l.amc # None THEN Ok([c EXCEPT !.amc = l.amc])
    ELSE IF c.folio # extract_folio_pan(l, c.folio)[1]
    THEN Ok(folio_rule(c, extract_folio_pan(l, c.folio)))
    ELSE lower_rules(c, l, nxt)

----------------------------------------------------------------------------
(* Spec: process_detailed_version, then the rest of parse_cams_pdf *)

\* no line of a summary statement read yet
NoSummaryLine == [row |-> <<>>, total |-> FALSE, text |-> ""]

FoldIdle ==
    /\ pc = "idle" /\ nlines = 0 /\ line = Blank /\ peek = "eop"
    /\ current_amc = None /\ current_folio = None /\ current_pan = None
    /\ current_scheme = <<>> /\ current_registrar = None
    /\ schemes = <<>> /\ created = 0 /\ error = None /\ result = <<>>
    /\ fold_page = 0 /\ txn_headers = 0 /\ ahead = {}
TxIdleInit == tx_in = TxIdle /\ tx_out = <<>>
RcIdleInit == rc_in = RcIdle /\ rc_out = <<>> /\ rc_runs = 0
SmIdleInit ==
    /\ sm_pc = "idle" /\ sm_page = 0 /\ sm_schemes = <<>> /\ sm_current = <<>>
    /\ sm_folio = None /\ sm_rows = 0 /\ sm_lines = 0 /\ sm_total = FALSE
    /\ sm_line = NoSummaryLine

----------------------------------------------------------------------------
(* parse_cams_pdf: CASParser._get_document, classification, dispatch       *)

MaxBlocks == 2         \* text blocks on the first page

FileTypes == {"CAMS", "KFINTECH", "NSDL", "CDSL", "UNKNOWN"}
FileVersions == {"DETAILED", "SUMMARY", "UNKNOWN"}

\* The literal vendor markers a block's text may hold
Markers == {"CAMSCASWS", "KFINCASWS", "NSDL", "CDSL"}
MarkerSets == {{}, {"CAMSCASWS"}, {"KFINCASWS"}, {"NSDL"}, {"CDSL"}, {"KFINCASWS", "CDSL"}}
\* group(1) of CAS_TYPE in a block, lower-cased and stripped; "nomatch" when
\* the pattern does not match the block
CasTypes == {"nomatch", "statement", "summary", "other"}
Blocks == [markers : MarkerSets, cas_type : CasTypes]
BlockSeqs == UNION {[1..n -> Blocks] : n \in 0..MaxBlocks}

\* parser.py 74-86
RECURSIVE parse_file_type(_)
parse_file_type(page_blocks) ==
    IF page_blocks = <<>> THEN "UNKNOWN"
    ELSE LET block == Head(page_blocks) IN
         IF "CAMSCASWS" \in block.markers THEN "CAMS"
         ELSE IF "KFINCASWS" \in block.markers THEN "KFINTECH"
         ELSE IF "NSDL" \in block.markers THEN "NSDL"
         ELSE IF "CDSL" \in block.markers THEN "CDSL"
         ELSE parse_file_type(Tail(page_blocks))

\* parser.py 89-98
RECURSIVE parse_file_version(_)
parse_file_version(page_blocks) ==
    IF page_blocks = <<>> THEN "UNKNOWN"
    ELSE LET block == Head(page_blocks) IN
         IF block.cas_type = "statement" THEN "DETAILED"
         ELSE IF block.cas_type = "summary" THEN "SUMMARY"
         ELSE parse_file_version(Tail(page_blocks))

\* What parse_cams_pdf is called with.
\*   filename    "path" (a str), "filelike" (has read and close), "other"
\*   opens       open(filename, "rb") succeeds (a str only)
\*   loads       Document(stream=fp.read()) succeeds
\*   needs_pass  the document is encrypted
\*   unlocks     doc.authenticate(password) is truthy
ParseInputs == [filename : {"path", "filelike", "other"}, opens : BOOLEAN, loads : BOOLEAN,
                needs_pass : BOOLEAN, unlocks : BOOLEAN]
NoInput == [filename |-> "other", opens |-> FALSE, loads |-> FALSE,
            needs_pass |-> FALSE, unlocks |-> FALSE]

\* parser.py 39-71: the exception _get_document leaves with, "None" if it returns
get_document(in) ==
    IF in.filename = "path" /\ ~in.opens THEN "OSError"               \* line 55, outside the try
    ELSE IF in.filename = "other" THEN "CASParseError"                \* line 59
    ELSE IF ~in.loads THEN "CASParseError"                            \* lines 62-65
    ELSE IF in.needs_pass /\ ~in.unlocks THEN "IncorrectPasswordError" \* lines 67-70
    ELSE None

\* What the page the investor data is read from holds.
\*   "info"     the data is found
\*   "noinfo"   the scan ends without it
\*   "notable"  find_tables finds no table on the page       (CAMS, KFINTECH)
\*   "nowords"  the page has no words                        (NSDL, CDSL)
InvestorPages == {"info", "noinfo", "notable", "nowords"}

\* parser.py 101-145
parse_cams_investor_info(page) ==
    IF page = "notable" THEN "AttributeError"     \* first_table is None at line 122
    ELSE IF page = "info" THEN None
    ELSE "CASParseError"

\* parser.py 148-180; recover_lines reads words[0] at line 205
parse_nsdl_investor_info(page) ==
    IF page = "nowords" THEN "IndexError"
    ELSE IF page = "info" THEN None
    ELSE "CASParseError"

\* parser.py 245-276: the exception extract_statement_metadata leaves with
extract_statement_metadata(file_type, page) ==
    IF file_type \in {"CAMS", "KFINTECH"} THEN parse_cams_investor_info(page)
    ELSE IF file_type \in {"NSDL", "CDSL"} THEN parse_nsdl_investor_info(page)
    ELSE None

PsIdle ==
    /\ ps_input = NoInput /\ ps_blocks = <<>>
    /\ ps_file_type = "UNKNOWN" /\ ps_file_version = "UNKNOWN"
    /\ ps_ran = {} /\ ps_error = None
PsIdleInit == ps_pc = "idle" /\ PsIdle
PsInit == ps_pc = "start" /\ PsIdle

PsRest == UNCHANGED <<foldVars, txVars, rcVars, smVars, rlVars, tvVars, dmVars, tbVars, sdVars, pgVars>>

\* cams/__init__.py 25, parser.py 35-71: CASParser(filename, password)
GetDocument ==
    /\ ps_pc = "start"
    /\ \E in \in ParseInputs :
         /\ in.filename # "path" => in.opens
         /\ ~in.needs_pass => in.unlocks
         /\ ps_input' = in
         /\ ps_error' = get_document(in)
         /\ ps_pc' = IF get_document(in) = None THEN "opened" ELSE "raised"
    /\ UNCHANGED <<ps_blocks, ps_file_type, ps_file_version, ps_ran>>
    /\ PsRest

\* cams/__init__.py 25, parser.py 278-301: .parse_pdf()
ParsePdf ==
    /\ ps_pc = "opened"
    /\ \E blocks \in BlockSeqs, page \in InvestorPages :
         LET file_type == parse_file_type(blocks)
             err == extract_statement_metadata(file_type, page) IN
         /\ ps_blocks' = blocks
         /\ ps_file_type' = file_type
         /\ ps_file_version' = parse_file_version(blocks)
         /\ ps_error' = err
         /\ ps_pc' = IF err = None THEN "parsed" ELSE "raised"
    /\ UNCHANGED <<ps_input, ps_ran>>
    /\ PsRest

\* cams/__init__.py 26-34
dispatch(file_type, file_version) ==
    IF file_type \notin {"CAMS", "KFINTECH"} THEN "raised"
    ELSE IF file_version = "DETAILED" THEN "detailed"
    ELSE IF file_version = "SUMMARY" THEN "summary"
    ELSE "raised"

Dispatch ==
    /\ ps_pc = "parsed"
    /\ ps_pc' = dispatch(ps_file_type, ps_file_version)
    /\ ps_error' = IF ps_pc' = "raised" THEN "CASParseError" ELSE None
    /\ ps_ran' = IF ps_pc' = "raised" THEN ps_ran ELSE ps_ran \cup {ps_pc'}
    /\ UNCHANGED <<ps_input, ps_blocks, ps_file_type, ps_file_version>>
    /\ PsRest

\* cams/__init__.py 30 and 36-53: the detailed fold ends as in Spec, with its
\* list or with the layout error of processor.py 214
RunDetailed ==
    /\ ps_pc = "detailed"
    /\ \E layout_error \in BOOLEAN :
         /\ ps_pc' = IF layout_error THEN "raised" ELSE "returned"
         /\ ps_error' = IF layout_error THEN "CASParseError" ELSE None
    /\ UNCHANGED <<ps_input, ps_blocks, ps_file_type, ps_file_version, ps_ran>>
    /\ PsRest

\* cams/__init__.py 32 and 36-53: the summary fold raises nothing
RunSummary ==
    /\ ps_pc = "summary"
    /\ ps_pc' = "returned"
    /\ UNCHANGED <<ps_input, ps_blocks, ps_file_type, ps_file_version, ps_ran, ps_error>>
    /\ PsRest

----------------------------------------------------------------------------
(* CASParser.recover_lines and CASParser.get_header_positions               *)

MaxWords == 3          \* words on a page

\* pymupdf Rect and WordData = (Rect, text)
Rect(x0, y0, x1, y1) == [x0 |-> x0, y0 |-> y0, x1 |-> x1, y1 |-> y1]
WordData(rect, text) == [rect |-> rect, text |-> text]
Min(a, b) == IF a < b THEN a ELSE b
Max(a, b) == IF a > b THEN a ELSE b
\* lrect |= wr: a new Rect, the smallest one holding both
RectUnion(r, s) == Rect(Min(r.x0, s.x0), Min(r.y0, s.y0), Max(r.x1, s.x1), Max(r.y1, s.y1))

\* The words a page may hold: one text line of three words, a taller word
\* aligned with its top, a word aligned with that one's bottom only, a rule
\* drawn down the page, and header labels above and below.
PageWords ==
    { WordData(Rect(10, 100, 30, 112), "Fund"),
      WordData(Rect(35, 100, 40, 112), "A"),
      WordData(Rect(45, 100, 70, 112), "Growth"),
      WordData(Rect(75, 102, 90, 120), "Direct"),
      WordData(Rect(5, 110, 9, 121), "Plan"),
      WordData(Rect(1, 100, 3, 140), "|"),
      WordData(Rect(160, 130, 210, 142), "Units"),
      WordData(Rect(100, 80, 150, 92), "Amount"),
      WordData(Rect(100, 130, 150, 142), "amount") }
WordLists == UNION {[1..n -> PageWords] : n \in 1..MaxWords}

\* parser.py 183 (defaults) and 210
tolerance == 3
vertical_factor == 4
is_vertical(wr) == Abs(wr.x1 - wr.x0) * vertical_factor < Abs(wr.y1 - wr.y0)

\* parser.py 213
matches_line_TopAndBottom(lrect, wr) ==
    Abs(lrect.y0 - wr.y0) <= tolerance /\ Abs(lrect.y1 - wr.y1) <= tolerance
matches_line(lrect, wr) ==
    Abs(lrect.y0 - wr.y0) <= tolerance \/ Abs(lrect.y1 - wr.y1) <= tolerance

\* sorted(line, key=lambda w: w[0].x0): stable
RECURSIVE InsertByX0(_, _)
InsertByX0(sorted, w) ==
    IF sorted = <<>> THEN <<w>>
    ELSE IF w.rect.x0 < Head(sorted).rect.x0 THEN <<w>> \o sorted
    ELSE <<Head(sorted)>> \o InsertByX0(Tail(sorted), w)
RECURSIVE sorted_by_x0(_)
sorted_by_x0(ws) ==
    IF ws = <<>> THEN <<>>
    ELSE InsertByX0(sorted_by_x0(SubSeq(ws, 1, Len(ws) - 1)), ws[Len(ws)])

\* " ".join(w[1] for w in word_pos)
RECURSIVE join_words(_)
join_words(ws) ==
    IF ws = <<>> THEN ""
    ELSE IF Len(ws) = 1 THEN ws[1].text
    ELSE ws[1].text \o " " \o join_words(Tail(ws))

\* the line closed with its leftmost word only
closed_line_Leftmost(ws, lrect) ==
    LET word_pos == <<sorted_by_x0(ws)[1]>>
    IN [ltext |-> join_words(word_pos), lrect |-> lrect, word_pos |-> word_pos]

\* parser.py 219-221 and 226-228: the line closed from the words collected
closed_line(ws, lrect) ==
    LET word_pos == sorted_by_x0(ws)
    IN [ltext |-> join_words(word_pos), lrect |-> lrect, word_pos |-> word_pos]

\* sorted(lines, key=lambda x: x[1].y1): stable
RECURSIVE InsertByY1(_, _)
InsertByY1(sorted, l) ==
    IF sorted = <<>> THEN <<l>>
    ELSE IF l.lrect.y1 < Head(sorted).lrect.y1 THEN <<l>> \o sorted
    ELSE <<Head(sorted)>> \o InsertByY1(Tail(sorted), l)
RECURSIVE sorted_by_y1(_)
sorted_by_y1_Unsorted(ls) == ls
sorted_by_y1(ls) ==
    IF ls = <<>> THEN <<>>
    ELSE InsertByY1(sorted_by_y1(SubSeq(ls, 1, Len(ls) - 1)), ls[Len(ls)])

\* parser.py 230-231: what the generator yields
RECURSIVE yielded(_)
yielded(ls) ==
    IF ls = <<>> THEN <<>>
    ELSE <<[ltext |-> Head(ls).ltext, word_pos |-> Head(ls).word_pos]>> \o yielded(Tail(ls))

\* parser.py 225-231
finish_lines_DropSingle(lines, ws, lrect) ==
    yielded(sorted_by_y1(IF Len(ws) = 1 THEN lines ELSE Append(lines, closed_line(ws, lrect))))
finish_lines(lines, ws, lrect) ==
    yielded(sorted_by_y1(Append(lines, closed_line(ws, lrect))))

\* parser.py 237-239: the header labels and the texts their patterns match
HeaderLabels == <<"amount", "units", "nav", "balance">>
header_match(header, text) ==
    \/ header = "amount" /\ text \in {"Amount", "amount"}
    \/ header = "units" /\ text \in {"Units"}
    \/ header = "nav" /\ text \in {"NAV"}
    \/ header = "balance" /\ text \in {"Balance"}

\* min(matches, key=lambda x: x[0].y0): the first of the smallest
RECURSIVE MinByY0(_)
MinByY0_First(ms) == ms[1]
MinByY0(ms) ==
    IF Len(ms) = 1 THEN ms[1]
    ELSE LET m == MinByY0(SubSeq(ms, 1, Len(ms) - 1))
         IN IF ms[Len(ms)].rect.y0 < m.rect.y0 THEN ms[Len(ms)] ELSE m

matching_words(header, ws) == SelectSeq(ws, LAMBDA w : header_match(header, w.text))

\* parser.py 234-243: a function from the labels found to their anchors
get_header_positions(ws) ==
    [header \in {HeaderLabels[k] : k \in {j \in 1..4 : matching_words(HeaderLabels[j], ws) # <<>>}}
        |-> MinByY0(matching_words(header, ws)).rect]

NoRect == Rect(0, 0, 0, 0)
RlIdle ==
    /\ rl_i = 0 /\ rl_line = <<>> /\ rl_lrect = NoRect /\ rl_lines = <<>>
    /\ rl_out = <<>> /\ rl_headers = <<>>
RlIdleInit == rl_pc = "idle" /\ rl_words = <<>> /\ RlIdle
\* parser.py 293-295: a page with words
RlInit == rl_pc = "page" /\ rl_words \in WordLists /\ RlIdle

RlRest == UNCHANGED <<foldVars, txVars, rcVars, smVars, psVars, tvVars, dmVars, tbVars, sdVars, pgVars>>

\* parser.py 298 (headers_data) and 234-243
GetHeaderPositions ==
    /\ rl_pc = "page"
    /\ rl_headers' = get_header_positions(rl_words)
    /\ rl_pc' = "headers"
    /\ UNCHANGED <<rl_words, rl_i, rl_line, rl_lrect, rl_lines, rl_out>>
    /\ RlRest

\* parser.py 204-206: the generator starts
StartLines ==
    /\ rl_pc = "headers"
    /\ rl_lines' = <<>>
    /\ rl_line' = <<rl_words[1]>>
    /\ rl_lrect' = rl_words[1].rect
    /\ rl_i' = 2
    /\ rl_pc' = "scan"
    /\ UNCHANGED <<rl_words, rl_out, rl_headers>>
    /\ RlRest

\* parser.py 208-223: one iteration over words[1:]
RecoverWord ==
    /\ rl_pc = "scan" /\ rl_i <= Len(rl_words)
    /\ LET w == rl_words[rl_i] IN
         IF is_vertical(w.rect)
         THEN UNCHANGED <<rl_line, rl_lrect, rl_lines>>
         ELSE IF matches_line(rl_lrect, w.rect)
         THEN /\ rl_line' = Append(rl_line, w)
              /\ rl_lrect' = RectUnion(rl_lrect, w.rect)
              /\ UNCHANGED rl_lines
         ELSE /\ rl_lines' = Append(rl_lines, closed_line(rl_line, rl_lrect))
              /\ rl_line' = <<w>>
              /\ rl_lrect' = w.rect
    /\ rl_i' = rl_i + 1
    /\ UNCHANGED <<rl_pc, rl_words, rl_out, rl_headers>>
    /\ RlRest

\* parser.py 225-231
FinishLines ==
    /\ rl_pc = "scan" /\ rl_i > Len(rl_words)
    /\ rl_out' = finish_lines(rl_lines, rl_line, rl_lrect)
    /\ rl_pc' = "done"
    /\ UNCHANGED <<rl_words, rl_i, rl_line, rl_lrect, rl_lines, rl_headers>>
    /\ RlRest


----------------------------------------------------------------------------
(* CASProcessor.extract_transactions: the values of a transaction           *)

MaxLineWords == 2      \* words of a transaction line that hold a value
MaxLineTxns == 2       \* transactions on one line

\* processor.py 96: value_tolerance
left_tol == 20
right_tol == 5

\* processor.py 117-118: the tokens of the model without their parentheses
normalize(s) == IF s = "(10.500)" THEN "10.500" ELSE s

\* headers_data of the page: the anchors of the labels found, as
\* get_header_positions builds them (a dict in the order of HeaderLabels)
Anchors ==
    [amount |-> Rect(100, 80, 150, 92), units |-> Rect(160, 80, 210, 92),
     nav |-> Rect(220, 80, 270, 92), balance |-> Rect(280, 80, 330, 92)]
HeaderMaps == {Anchors, [h \in {"units", "balance"} |-> Anchors[h]]}

\* Words of a transaction line that hold a value: under Amount, under Units
\* (once in parentheses), under Balance, between Amount and Units (in the band
\* of both), and right of every column
ValueWords ==
    { WordData(Rect(105, 200, 135, 212), "500.00"),
      WordData(Rect(165, 200, 195, 212), "10.500"),
      WordData(Rect(165, 200, 195, 212), "(10.500)"),
      WordData(Rect(285, 200, 320, 212), "210.500"),
      WordData(Rect(142, 200, 153, 212), "10.500"),
      WordData(Rect(400, 200, 430, 212), "10.500") }
\* a line holds a word once
ValueWordLists ==
    {ws \in UNION {[1..n -> ValueWords] : n \in 0..MaxLineWords} :
        \A i, j \in 1..Len(ws) : i # j => ws[i] # ws[j]}

\* re.findall(patterns.AMT, values): the tokens of one transaction
TokenLists ==
    { <<>>, <<"10.500">>, <<"10.500", "10.500">>,
      <<"500.00", "(10.500)", "210.500">>,
      <<"500.00", "10.500", "47.6190", "210.500">>,
      <<"500.00", "10.500", "47.6190", "210.500", "9.99">> }
LineTxns == UNION {[1..n -> TokenLists] : n \in 1..MaxLineTxns}

\* The line of the column example with all four values, and without its NAV
ExampleWords ==
    << WordData(Rect(105, 200, 135, 212), "500.00"),
       WordData(Rect(165, 200, 195, 212), "10.500"),
       WordData(Rect(225, 200, 255, 212), "47.6190"),
       WordData(Rect(285, 200, 320, 212), "210.500") >>
ExampleLines ==
    { [words |-> ExampleWords, headers |-> Anchors,
       txns |-> << <<"500.00", "10.500", "47.6190", "210.500">> >>],
      [words |-> <<ExampleWords[1], ExampleWords[2], ExampleWords[4]>>, headers |-> Anchors,
       txns |-> << <<"500.00", "10.500", "210.500">> >>] }
ValueLines ==
    [words : ValueWordLists, headers : HeaderMaps, txns : LineTxns] \cup ExampleLines

\* processor.py 135
NoValues == [amount |-> None, units |-> None, nav |-> None, balance |-> None]

\* processor.py 136
is_normal_entry_ExactlyFour(values) == Len(values) = 4
is_normal_entry(values) == Len(values) >= 4

\* processor.py 138: amount, units, nav, balance, *_ = values
assign_positional(values) ==
    [amount |-> values[1], units |-> values[2], nav |-> values[3], balance |-> values[4]]

\* processor.py 141-144: index of the first word with the token's text, 0 if none
first_word(word_rects, val) ==
    LET found == {i \in 1..Len(word_rects) : normalize(word_rects[i].text) = normalize(val)}
    IN IF found = {} THEN 0 ELSE CHOOSE i \in found : \A j \in found : i <= j

\* processor.py 146: word_rects.pop(idx)
pop_Keep(word_rects, idx) == word_rects
pop(word_rects, idx) == SubSeq(word_rects, 1, idx - 1) \o SubSeq(word_rects, idx + 1, Len(word_rects))

\* processor.py 148
in_band(val_rect, rect) == val_rect.x0 >= rect.x0 - left_tol /\ val_rect.x1 <= rect.x1 + right_tol

\* processor.py 147-150: the first header of the dict whose band holds the
\* word, "None" if no band does
matching_headers(headers, val_rect) ==
    {k \in 1..4 : HeaderLabels[k] \in DOMAIN headers /\ in_band(val_rect, headers[HeaderLabels[k]])}
resolve_header_LastWins(headers, val_rect) ==
    LET ks == matching_headers(headers, val_rect)
    IN IF ks = {} THEN None ELSE HeaderLabels[CHOOSE k \in ks : \A j \in ks : j <= k]
resolve_header(headers, val_rect) ==
    LET ks == matching_headers(headers, val_rect)
    IN IF ks = {} THEN None ELSE HeaderLabels[CHOOSE k \in ks : \A j \in ks : k <= j]

TvIdle ==
    /\ tv_t = 0 /\ tv_k = 0 /\ tv_values = NoValues /\ tv_out = <<>> /\ tv_used = <<>>
TvIdleInit ==
    /\ tv_pc = "idle" /\ tv_line = <<>> /\ tv_words = <<>> /\ tv_headers = <<>>
    /\ tv_txns = <<>> /\ TvIdle
\* processor.py 120-124: a line with transactions
TvInit ==
    /\ tv_pc = "line"
    /\ \E l \in ValueLines :
         /\ tv_line = l.words /\ tv_words = l.words
         /\ tv_headers = l.headers /\ tv_txns = l.txns
    /\ TvIdle

TvRest == UNCHANGED <<foldVars, txVars, rcVars, smVars, psVars, rlVars, dmVars, tbVars, sdVars, pgVars>>

\* processor.py 126-139: the next transaction of the line and its tokens
StartTransaction ==
    /\ tv_pc = "line" /\ tv_t < Len(tv_txns)
    /\ tv_t' = tv_t + 1
    /\ LET values == tv_txns[tv_t + 1] IN
         IF is_normal_entry(values)
         THEN /\ tv_values' = assign_positional(values)
              /\ tv_k' = 0
              /\ tv_pc' = "assigned"
         ELSE /\ tv_values' = NoValues
              /\ tv_k' = 1
              /\ tv_pc' = "resolve"
    /\ UNCHANGED <<tv_line, tv_words, tv_headers, tv_txns, tv_out, tv_used>>
    /\ TvRest

\* processor.py 140-150: one iteration of `for val in values`
ResolveToken ==
    /\ tv_pc = "resolve" /\ tv_k <= Len(tv_txns[tv_t])
    /\ LET val == tv_txns[tv_t][tv_k]
           idx == first_word(tv_words, val)
       IN IF idx = 0
          THEN UNCHANGED <<tv_words, tv_values, tv_used>>
          ELSE LET word == tv_words[idx]
                   header == resolve_header(tv_headers, word.rect)
               IN /\ tv_words' = pop(tv_words, idx)
                  /\ tv_used' = Append(tv_used, [t |-> tv_t, k |-> tv_k, word |-> word])
                  /\ tv_values' = IF header = None THEN tv_values
                                  ELSE [tv_values EXCEPT ![header] = val]
    /\ tv_k' = tv_k + 1
    /\ UNCHANGED <<tv_pc, tv_line, tv_headers, tv_txns, tv_t, tv_out>>
    /\ TvRest

\* processor.py 152-168: the transaction is built from txn_values
AppendTransaction ==
    /\ \/ tv_pc = "assigned"
       \/ tv_pc = "resolve" /\ tv_k > Len(tv_txns[tv_t])
    /\ tv_out' = Append(tv_out, tv_values)
    /\ tv_pc' = "line"
    /\ UNCHANGED <<tv_line, tv_words, tv_headers, tv_txns, tv_t, tv_k, tv_values, tv_used>>
    /\ TvRest

\* processor.py 169
ReturnTransactions ==
    /\ tv_pc = "line" /\ tv_t = Len(tv_txns)
    /\ tv_pc' = "done"
    /\ UNCHANGED <<tv_line, tv_words, tv_headers, tv_txns, tv_t, tv_k, tv_values, tv_out, tv_used>>
    /\ TvRest


----------------------------------------------------------------------------
(* CDSLProcessor.process_statement, pass 1: the demat accounts              *)

MaxDematLines == 3     \* lines of the page

\* types.py 128-139.  holders is the identity of a list object.
DematAccount(name, ac_type, units, schemes_count, dp_id, client_id, folios, holders) ==
    [name |-> name, ac_type |-> ac_type, units |-> units, schemes_count |-> schemes_count,
     dp_id |-> dp_id, folios |-> folios, client_id |-> client_id, holders |-> holders]

\* The lines of the page by what the patterns of pass 1 find in them.
\*   "holder"     extract_holders finds an owner
\*   "demat"      extract_nsdl_cdsl_demat finds an account header
\*   "dp"         extract_dp_client_id finds a DP id and a client id
\*   "mf"         extract_mf_demat finds a mutual-fund-folio summary header;
\*                folios, schemes_count and ac_balance are the groups captured,
\*                <<>> for a group without a value
\*   "valuation"  'consolidated portfolio valuation for year'
\*   "mfunits"    'MUTUAL FUND UNITS HELD WITH'
\*   "transactions"  'STATEMENT OF TRANSACTIONS' or 'Other Details'
\*   "heading"    resolve_scheme_type_from_heading finds an asset class
\*   "sentinel"   'portfolio value' or 'grand total'
\*   "other"      none of these
DematLine(kind, text) ==
    [kind |-> kind, text |-> text, ac_type |-> "", dp_id |-> "", client_id |-> "",
     folios |-> Null, schemes_count |-> Null, ac_balance |-> Null, scheme_type |-> ""]
DematHeader(text, ac_type, schemes_count, ac_balance) ==
    [DematLine("demat", text) EXCEPT !.ac_type = ac_type, !.schemes_count = schemes_count,
                                     !.ac_balance = ac_balance]
DPLine(text, dp_id, client_id) ==
    [DematLine("dp", text) EXCEPT !.dp_id = dp_id, !.client_id = client_id]
Heading(text, scheme_type) == [DematLine("heading", text) EXCEPT !.scheme_type = scheme_type]
MFHeader(text, folios, schemes_count, ac_balance) ==
    [DematLine("mf", text) EXCEPT !.folios = folios, !.schemes_count = schemes_count,
                                  !.ac_balance = ac_balance]
DematLines ==
    { DematLine("holder", "H1"),
      DematHeader("NSDL Demat Account", "NSDL", Num(1), Num(7)),
      DPLine("DP1", "D1", "C1"),
      DPLine("DP2", "D2", "C2"),
      MFHeader("MF1", Num(2), Num(1), Num(5)),
      MFHeader("MF2", Null, Null, Null),
      MFHeader("MF3", Num(1), Num(3), Num(4)),
      DematLine("valuation", "V"),
      DematLine("mfunits", "U"),
      DematLine("transactions", "STATEMENT OF TRANSACTIONS"),
      Heading("Equities", "STOCK"),
      DematLine("sentinel", "Portfolio Value"),
      DematLine("other", "Broker") }
DematPages == UNION {[1..n -> DematLines] : n \in 1..MaxDematLines}

\* A first page with two accounts and the mutual-fund folios, with an open
\* region at its end, and the second pages that continue it
AccountsPage ==
    << DematLine("other", "Broker"),
       DematHeader("NSDL Demat Account", "NSDL", Num(1), Num(7)),
       DPLine("DP1", "D1", "C1"),
       DematHeader("CDSL Demat Account", "CDSL", Num(2), Num(9)),
       DPLine("DP2", "D2", "C2"),
       MFHeader("MF1", Num(2), Num(1), Num(5)),
       Heading("Equities", "STOCK"),
       DematLine("other", "Row") >>
TableLines ==
    { DPLine("DP1", "D1", "C1"),
      DPLine("DP2", "D2", "C2"),
      Heading("Equities", "STOCK"),
      Heading("Corporate Bonds", "CORPORATE_BOND"),
      DematLine("mfunits", "U"),
      DematLine("transactions", "STATEMENT OF TRANSACTIONS"),
      DematLine("sentinel", "Grand Total"),
      DematLine("other", "Row") }
TablePages == UNION {[1..n -> TableLines] : n \in 1..MaxDematLines}
DematDocuments ==
    {<<page>> : page \in DematPages} \cup {<<AccountsPage, page>> : page \in TablePages}

\* _words_rect of a line: its words, known by the page and the place of the line
words_rect(page, idx) == << <<page, idx>> >>

\* NSDLProcessor.extract_mf_demat: the counts as integers, a count without a
\* value being 0, and the balance as captured
extract_mf_demat(l) ==
    [folios |-> OrZero(l.folios), schemes_count |-> OrZero(l.schemes_count),
     ac_balance |-> l.ac_balance]

\* cdsl/processor.py 72-87
extract_nsdl_cdsl_demat(l) ==
    [ac_type |-> l.ac_type, schemes_count |-> OrZero(l.schemes_count), ac_balance |-> l.ac_balance]

\* a dict: demats[key] = value
Put(d, key, value) == [k \in DOMAIN d \cup {key} |-> IF k = key THEN value ELSE d[k]]
\* demats.get(key): 0 stands for None
Get(d, key) == IF key \in DOMAIN d THEN d[key] ELSE 0
NoDemats == [k \in {} |-> 0]
\* table_data, a defaultdict(list): table_data[key].extend(words)
NoTables == [k \in {} |-> <<>>]
Extend(d, key, words) == Put(d, key, (IF key \in DOMAIN d THEN d[key] ELSE <<>>) \o words)

\* cdsl/processor.py 274-282: the account of the first header
mf_create(mf, holders) ==
    DematAccount("Mutual Fund Folios", "MF", mf.ac_balance, mf.schemes_count, "", "",
                 mf.folios, holders)

\* cdsl/processor.py 283-287: the account after a later header
mf_update_Overwrite(account, mf) ==
    [account EXCEPT !.folios = mf.folios, !.schemes_count = mf.schemes_count,
                    !.units = mf.ac_balance]
mf_update(account, mf) ==
    [account EXCEPT !.folios = @ + mf.folios,
                    !.schemes_count = @ + mf.schemes_count,
                    !.units = Num(OrZero(@) + OrZero(mf.ac_balance))]

DmIdle ==
    /\ dm_n = 0 /\ dm_accounts = <<>> /\ dm_lists = << <<>> >> /\ dm_demats = NoDemats
    /\ dm_current = 0 /\ dm_holders = 1 /\ dm_process = TRUE /\ dm_out = <<>>
    /\ dm_table = FALSE /\ dm_scheme_type = "OTHER" /\ dm_tables = NoTables
DmIdleInit == dm_pc = "idle" /\ dm_doc = <<>> /\ dm_pageno = 0 /\ dm_page = <<>> /\ DmIdle
\* cdsl/processor.py 227-239, the first page entered
DmInit ==
    /\ dm_pc = "lines" /\ dm_doc \in DematDocuments /\ dm_pageno = 1 /\ dm_page = dm_doc[1]
    /\ DmIdle

DmRest == UNCHANGED <<foldVars, txVars, rcVars, smVars, psVars, rlVars, tvVars, tbVars, sdVars, pgVars>>

\* cdsl/processor.py 246-251
HolderLine(l) ==
    /\ IF dm_current # 0
       THEN /\ dm_lists' = Append(dm_lists, <<l.text>>)
            /\ dm_holders' = Len(dm_lists) + 1
       ELSE /\ dm_lists' = [dm_lists EXCEPT ![dm_holders] = Append(@, l.text)]
            /\ UNCHANGED dm_holders
    /\ dm_current' = 0
    /\ UNCHANGED <<dm_accounts, dm_demats, dm_process, dm_table, dm_scheme_type, dm_tables>>

\* cdsl/processor.py 253-270
DematHeaderLine(l, idx) ==
    LET details == extract_nsdl_cdsl_demat(l)
        nxt == IF idx + 1 <= Len(dm_page) THEN dm_page[idx + 1] ELSE DematLine("other", "")
        dp_id == IF nxt.kind = "dp" THEN nxt.dp_id ELSE ""
        client_id == IF nxt.kind = "dp" THEN nxt.client_id ELSE ""
        \* page_lines_data[idx - 1]: the last line of the page for the first
        name == IF idx > 1 THEN dm_page[idx - 1].text ELSE dm_page[Len(dm_page)].text
    IN /\ dm_accounts' = Append(dm_accounts,
                                DematAccount(name, details.ac_type, details.ac_balance,
                                             details.schemes_count, dp_id, client_id, 0,
                                             dm_holders))
       /\ dm_current' = Len(dm_accounts) + 1
       /\ dm_demats' = Put(dm_demats, dp_id \o client_id, Len(dm_accounts) + 1)
       /\ UNCHANGED <<dm_lists, dm_holders, dm_process, dm_table, dm_scheme_type, dm_tables>>

\* cdsl/processor.py 272-288
MFHeaderLine(l) ==
    LET mf == extract_mf_demat(l) IN
    /\ IF "MF Folios" \notin DOMAIN dm_demats
       THEN /\ dm_lists' = Append(dm_lists, <<>>)      \* field(default_factory=list)
            /\ dm_accounts' = Append(dm_accounts, mf_create(mf, Len(dm_lists) + 1))
            /\ dm_current' = Len(dm_accounts) + 1
            /\ dm_demats' = Put(dm_demats, "MF Folios", Len(dm_accounts) + 1)
       ELSE /\ dm_current' = dm_demats["MF Folios"]
            /\ dm_accounts' = [dm_accounts EXCEPT ![dm_demats["MF Folios"]] = mf_update(@, mf)]
            /\ UNCHANGED <<dm_lists, dm_demats>>
    /\ UNCHANGED <<dm_holders, dm_process, dm_table, dm_scheme_type, dm_tables>>

\* cdsl/processor.py 314: the key of the buffer of a line
table_key_NoPage(account, scheme_type, page) ==
    <<account.ac_type, scheme_type, account.dp_id, account.client_id, 0>>
table_key(account, scheme_type, page) ==
    <<account.ac_type, scheme_type, account.dp_id, account.client_id, page>>

\* cdsl/processor.py 242-243, 290-315: the iteration for a line that the
\* account rules did not consume
LaterRules(l, idx) ==
    LET process_table == dm_table /\ l.kind # "transactions"              \* 242-243
        skipped == l.kind \in {"valuation", "mfunits"}                     \* 290-297
        current_demat == IF l.kind = "dp"                                  \* 299-300
                         THEN Get(dm_demats, l.dp_id \o l.client_id) ELSE dm_current
        is_heading == ~skipped /\ current_demat # 0 /\ l.kind = "heading"   \* 305
        is_row == /\ ~skipped /\ current_demat # 0 /\ l.kind # "heading"    \* 313
                  /\ process_table /\ l.kind # "sentinel"
    IN /\ dm_process' = IF l.kind = "valuation" THEN FALSE ELSE dm_process
       /\ dm_current' = IF l.kind = "valuation" THEN dm_current
                        ELSE IF l.kind = "mfunits" THEN Get(dm_demats, "MF Folios")
                        ELSE current_demat
       /\ dm_scheme_type' = IF is_heading THEN l.scheme_type ELSE dm_scheme_type
       /\ dm_table' = IF l.kind = "mfunits" \/ is_heading THEN TRUE
                      ELSE IF ~skipped /\ current_demat # 0 /\ l.kind = "sentinel" THEN FALSE
                      ELSE process_table
       /\ dm_tables' = IF is_row
                       THEN Extend(dm_tables,
                                   table_key(dm_accounts[current_demat], dm_scheme_type,
                                             dm_pageno),
                                   words_rect(dm_pageno, idx))
                       ELSE dm_tables
       /\ UNCHANGED <<dm_accounts, dm_lists, dm_demats, dm_holders>>

\* cdsl/processor.py 240-315: one line of the page
ProcessDematLine ==
    /\ dm_pc = "lines" /\ dm_n < Len(dm_page)
    /\ dm_n' = dm_n + 1
    /\ LET l == dm_page[dm_n + 1] IN
         IF dm_process /\ l.kind = "holder" THEN HolderLine(l)
         ELSE IF dm_process /\ l.kind = "demat" THEN DematHeaderLine(l, dm_n + 1)
         ELSE IF dm_process /\ l.kind = "mf" THEN MFHeaderLine(l)
         ELSE LaterRules(l, dm_n + 1)
    /\ UNCHANGED <<dm_pc, dm_doc, dm_pageno, dm_page, dm_out>>
    /\ DmRest

\* cdsl/processor.py 237-239: the next page of the document
NextPage ==
    /\ dm_pc = "lines" /\ dm_n = Len(dm_page) /\ dm_pageno < Len(dm_doc)
    /\ dm_pageno' = dm_pageno + 1
    /\ dm_page' = dm_doc[dm_pageno + 1]
    /\ dm_n' = 0
    /\ UNCHANGED <<dm_pc, dm_doc, dm_accounts, dm_lists, dm_demats, dm_current, dm_holders,
                   dm_process, dm_table, dm_scheme_type, dm_tables, dm_out>>
    /\ DmRest

\* cdsl/processor.py 324: accounts=list(demats.values())
ReturnStatement ==
    /\ dm_pc = "lines" /\ dm_n = Len(dm_page) /\ dm_pageno = Len(dm_doc)
    /\ dm_out' = [k \in DOMAIN dm_demats |-> dm_accounts[dm_demats[k]]]
    /\ dm_pc' = "done"
    /\ UNCHANGED <<dm_doc, dm_pageno, dm_page, dm_n, dm_accounts, dm_lists, dm_demats,
                   dm_current, dm_holders, dm_process, dm_table, dm_scheme_type, dm_tables>>
    /\ DmRest

----------------------------------------------------------------------------
(* CDSLProcessor.recover_table_lines                                        *)

MaxTableWords == 3     \* words in the buffer

\* The words of a table: three on the band y 100-110, two on the band y 112-122
\* just below it, two on the band y 130-140 further down, a rule that is
\* much taller than wide, and a glyph between four and five times taller than
\* wide.  Ac~ ends with a soft hyphen.
TableWords ==
    { WordData(Rect(10, 100, 40, 110), "INE001"),
      WordData(Rect(50, 100, 70, 110), "Ac~"),
      WordData(Rect(120, 100, 150, 110), "10.000"),
      WordData(Rect(10, 112, 40, 122), "INE002"),
      WordData(Rect(120, 112, 150, 122), "20.000"),
      WordData(Rect(10, 130, 40, 140), "INE003"),
      WordData(Rect(120, 130, 150, 140), "30.000"),
      WordData(Rect(1, 100, 3, 140), "|"),
      WordData(Rect(160, 150, 164, 168), "I") }
TableBuffers == UNION {[1..n -> TableWords] : n \in 1..MaxTableWords}

\* cdsl/processor.py 198: the default of tolerance
table_tolerance == 4
\* cdsl/processor.py 202
table_is_vertical(wr) == Abs(wr.x1 - wr.x0) * 5 < Abs(wr.y1 - wr.y0)
\* cdsl/processor.py 205-210
table_matches_line_Any(lrect, wr) == TRUE
table_matches_line(lrect, wr) ==
    \/ Abs(lrect.y0 - wr.y0) <= table_tolerance
    \/ Abs(lrect.y1 - wr.y1) <= table_tolerance
    \/ Abs(lrect.y1 - wr.y0) <= table_tolerance
    \/ Abs(lrect.y0 - wr.y1) <= table_tolerance

\* cdsl/processor.py 204-216: the rows after a word that is not skipped; the
\* word joins the first row it matches, or starts a row
RECURSIVE first_match(_, _, _)
first_match(lrects, wr, idx) ==
    IF idx > Len(lrects) THEN 0
    ELSE IF table_matches_line(lrects[idx], wr) THEN idx
    ELSE first_match(lrects, wr, idx + 1)

\* cdsl/processor.py 219-220: the texts joined by a blank, then every soft
\* hyphen removed with the blanks after it
without_soft_hyphen(text) == IF text = "Ac~" THEN "Ac" ELSE text
RECURSIVE table_text(_)
table_text(ws) ==
    IF ws = <<>> THEN ""
    ELSE IF Len(ws) = 1 THEN without_soft_hyphen(ws[1].text)
    ELSE IF without_soft_hyphen(ws[1].text) # ws[1].text
         THEN without_soft_hyphen(ws[1].text) \o table_text(Tail(ws))
    ELSE ws[1].text \o " " \o table_text(Tail(ws))

\* cdsl/processor.py 217-221: the text of each row, with the words it is made of
table_sorted_Unsorted(ws) == ws
table_sorted(ws) == sorted_by_x0(ws)
RECURSIVE table_lines(_)
table_lines(line_words) ==
    IF line_words = <<>> THEN <<>>
    ELSE LET word_pos == table_sorted(Head(line_words))
         IN <<[ltext |-> table_text(word_pos), word_pos |-> word_pos]>>
            \o table_lines(Tail(line_words))

TbIdle == tb_i = 0 /\ tb_lrects = <<>> /\ tb_line_words = <<>> /\ tb_out = <<>>
TbIdleInit == tb_pc = "idle" /\ tb_words = <<>> /\ TbIdle
TbInit == tb_pc = "start" /\ tb_words \in TableBuffers /\ TbIdle

TbRest == UNCHANGED <<foldVars, txVars, rcVars, smVars, psVars, rlVars, tvVars, dmVars, sdVars, pgVars>>

\* cdsl/processor.py 199-200
StartTable ==
    /\ tb_pc = "start"
    /\ tb_lrects' = <<tb_words[1].rect>>
    /\ tb_line_words' = << <<tb_words[1]>> >>
    /\ tb_i' = 1
    /\ tb_pc' = "words"
    /\ UNCHANGED <<tb_words, tb_out>>
    /\ TbRest

\* cdsl/processor.py 201-216: one word of words[1:]
RecoverTableWord ==
    /\ tb_pc = "words" /\ tb_i < Len(tb_words)
    /\ tb_i' = tb_i + 1
    /\ LET w == tb_words[tb_i + 1]
           idx == first_match(tb_lrects, w.rect, 1)
       IN IF table_is_vertical(w.rect)
          THEN UNCHANGED <<tb_lrects, tb_line_words>>
          ELSE IF idx # 0
          THEN /\ tb_line_words' = [tb_line_words EXCEPT ![idx] = Append(@, w)]
               /\ tb_lrects' = [tb_lrects EXCEPT ![idx] = RectUnion(@, w.rect)]
          ELSE /\ tb_line_words' = Append(tb_line_words, <<w>>)
               /\ tb_lrects' = Append(tb_lrects, w.rect)
    /\ UNCHANGED <<tb_pc, tb_words, tb_out>>
    /\ TbRest

\* cdsl/processor.py 217-221
YieldTableLines ==
    /\ tb_pc = "words" /\ tb_i = Len(tb_words)
    /\ tb_out' = table_lines(tb_line_words)
    /\ tb_pc' = "done"
    /\ UNCHANGED <<tb_words, tb_i, tb_lrects, tb_line_words>>
    /\ TbRest

----------------------------------------------------------------------------
(* CDSLProcessor.process_statement, pass 2: the schemes of one buffer       *)

MaxRows == 2           \* rows recovered from the buffer

\* The words of a row (line.split()) by what the patterns find in them.
\*   "isin"     re.match(patterns.ISIN, word) matches
\*   "decimal"  a number with a decimal point, e.g. 1,234.50
\*   "integer"  digits only, e.g. 100
\*   "percent"  a number with a decimal point and more, e.g. 12.50%
\*   "dash"     --
\*   "text"     any other word, e.g. a name
RowWord(kind, value) == [kind |-> kind, value |-> value]
IsinWord == RowWord("isin", 0)
DecWord(n) == RowWord("decimal", n)
IntWord(n) == RowWord("integer", n)
PctWord(n) == RowWord("percent", n)
Dash == RowWord("dash", 0)
NameWord == RowWord("text", 0)

TableRowPool ==
    { <<IsinWord, NameWord, DecWord(1), DecWord(2), DecWord(3), DecWord(4), DecWord(5),
        DecWord(6), DecWord(7)>>,
      <<IsinWord, NameWord, DecWord(1), DecWord(2), DecWord(3), DecWord(4)>>,
      <<IsinWord, DecWord(1), DecWord(2)>>,
      <<NameWord, DecWord(1), DecWord(2)>>,
      <<IsinWord, NameWord, IntWord(100)>>,
      <<IsinWord, NameWord, DecWord(1), Dash, Dash, DecWord(2), DecWord(3), DecWord(4),
        DecWord(5)>>,
      <<IsinWord, DecWord(1), DecWord(2), DecWord(3), Dash, DecWord(4), DecWord(5), DecWord(6)>>,
      <<IsinWord, DecWord(1), DecWord(2), DecWord(3), DecWord(4), DecWord(5), PctWord(6),
        DecWord(7)>>,
      <<IsinWord, DecWord(1), DecWord(2), DecWord(3), DecWord(4), DecWord(5), DecWord(6)>>,
      <<IsinWord, DecWord(1), DecWord(2), DecWord(3), DecWord(4), DecWord(5), DecWord(6),
        DecWord(7), DecWord(8), DecWord(9)>> }
TableRowLists == UNION {[1..n -> TableRowPool] : n \in 1..MaxRows}
BufferKeys ==
    [ac_type : {"CDSL", "NSDL"}, scheme_type : {"STOCK", "CORPORATE_BOND", "MUTUAL_FUND", "OTHER"},
     dp_id : {"D1"}, client_id : {"C1"}]
    \cup [ac_type : {"MF"}, scheme_type : {"STOCK", "MUTUAL_FUND", "OTHER"}, dp_id : {""},
          client_id : {""}]

\* re.match(patterns.ISIN, word)
is_isin(word) == word.kind = "isin"
\* cdsl/processor.py 132: re.search(r"\d+\.\d+", words[i].replace(",", ""))
has_decimal(word) == word.kind \in {"decimal", "percent"}
\* cdsl/processor.py 169: words[i].replace(",", "").replace(".", "").isdigit()
is_digits(word) == word.kind \in {"decimal", "integer"}
\* Decimal(val.replace(",", "")) raises InvalidOperation for what is not a number
is_number(word) == word.kind \in {"decimal", "integer"}

\* cdsl/processor.py 44-47: None for -- (and -, . and the empty string)
clean_raises(word) == word.kind # "dash" /\ ~is_number(word)
clean_decimal(word) == IF word.kind = "dash" THEN Null ELSE Num(word.value)

\* next(i for i ... if test(words[i])): the first index from idx on, 0 for
\* StopIteration
RECURSIVE first_index(_, _, _)
first_index(words, test(_), idx) ==
    IF idx > Len(words) THEN 0
    ELSE IF test(words[idx]) THEN idx
    ELSE first_index(words, test, idx + 1)

\* what extract_scheme_details does: it returns a scheme, returns None, or
\* ends with an exception
Scheme_(scheme) == [error |-> "None", scheme |-> <<scheme>>]
NoScheme == [error |-> "None", scheme |-> <<>>]
Raises(exception) == [error |-> exception, scheme |-> <<>>]

\* DepositoryScheme and CDSLMFScheme (cdsl/types.py 23-32), with the dp_id and
\* client_id that pass 2 sets
DepositoryScheme(isin, units, nav, market_value, scheme_type) ==
    [isin |-> isin, folio |-> "None", units |-> units, nav |-> nav, invested_value |-> Null,
     market_value |-> market_value, scheme_type |-> scheme_type, broker |-> "None", gain |-> Null,
     gain_pct |-> Null, expense_regular_pct |-> Null, expense_direct_pct |-> Null,
     commission |-> Null, dp_id |-> "None", client_id |-> "None"]

\* cdsl/processor.py 124-156
min_words(scheme_type) == IF scheme_type = "STOCK" THEN 5 ELSE 7
extract_cdsl_stock_or_bond(row, scheme_type) ==
    LET isin_index == first_index(row, is_isin, 1)
        first_decimal_index == first_index(row, has_decimal, isin_index + 1)
        words == <<row[isin_index]>> \o SubSeq(row, first_decimal_index, Len(row))
        n == Len(words)
    IN IF isin_index = 0 THEN NoScheme                                       \* 128-129
       ELSE IF first_decimal_index = 0 THEN NoScheme                         \* 134-135
       ELSE IF n < min_words(scheme_type) THEN NoScheme                      \* 138-141
       ELSE IF scheme_type = "STOCK"
       THEN \* 143: eight names are unpacked from words[:8]
            IF n < 8 THEN Raises("ValueError")
            ELSE IF clean_raises(words[2]) \/ clean_raises(words[7]) \/ clean_raises(words[8])
            THEN Raises("InvalidOperation")
            ELSE Scheme_(DepositoryScheme(words[1], clean_decimal(words[2]),
                                          clean_decimal(words[7]), clean_decimal(words[8]),
                                          scheme_type))
       ELSE \* 145-146, 155: units, face_value, nav, market_value = words[-4:]
            LET units == words[n - 3]
                face_value == words[n - 2]
            IN IF clean_raises(units) \/ clean_raises(words[n - 1]) \/ clean_raises(words[n])
               THEN Raises("InvalidOperation")
               ELSE IF ~is_number(face_value) \/ ~is_number(units)
               THEN Raises("InvalidOperation")
               ELSE Scheme_([DepositoryScheme(words[1], clean_decimal(units),
                                              clean_decimal(words[n - 1]),
                                              clean_decimal(words[n]), scheme_type)
                                EXCEPT !.invested_value = Num(face_value.value * units.value)])

\* patterns.CDSL_MF_SCHEME: the ISIN at the start of the row and the value
\* block, the numbers and dashes the row ends with
RECURSIVE value_block(_)
value_block(row) ==
    IF row = <<>> \/ ~(is_number(row[Len(row)]) \/ row[Len(row)].kind = "dash") THEN <<>>
    ELSE Append(value_block(SubSeq(row, 1, Len(row) - 1)), row[Len(row)])
mf_scheme_match(row) == is_isin(row[1]) /\ value_block(Tail(row)) # <<>>

\* cdsl/processor.py 92-123
extract_cdsl_mf(row, scheme_type) ==
    LET values == value_block(Tail(row))
        at(i) == IF Len(values) \in {6, 9} THEN clean_decimal(values[i]) ELSE Null
        nine == Len(values) = 9
    IN IF ~mf_scheme_match(row) THEN NoScheme                               \* 94-95
       ELSE Scheme_([DepositoryScheme(row[1], at(1), at(2), at(4), scheme_type)
                        EXCEPT !.invested_value = at(3),
                               !.gain = IF nine THEN at(8) ELSE at(5),
                               !.gain_pct = IF nine THEN at(9) ELSE at(6),
                               !.expense_regular_pct = IF nine THEN at(5) ELSE Null,
                               !.expense_direct_pct = IF nine THEN at(6) ELSE Null,
                               !.commission = IF nine THEN at(7) ELSE Null])

\* cdsl/processor.py 89-157
extract_cdsl_scheme(row, scheme_type) ==
    IF scheme_type = "MUTUAL_FUND" THEN extract_cdsl_mf(row, scheme_type)
    ELSE IF scheme_type \in {"STOCK", "CORPORATE_BOND"}
    THEN extract_cdsl_stock_or_bond(row, scheme_type)
    ELSE NoScheme

\* cdsl/processor.py 160-187
extract_nsdl_scheme(row, scheme_type) ==
    LET isin_index == first_index(row, is_isin, 1)
        first_decimal_index == first_index(row, is_digits, isin_index + 1)
        words == <<row[isin_index]>> \o SubSeq(row, first_decimal_index, Len(row))
    IN IF isin_index = 0 THEN NoScheme
       ELSE IF scheme_type # "STOCK" THEN NoScheme
       ELSE IF first_decimal_index = 0 THEN NoScheme
       ELSE IF Len(words) < 4 THEN NoScheme
       ELSE IF clean_raises(words[3]) \/ clean_raises(words[4]) THEN Raises("InvalidOperation")
       ELSE IF clean_decimal(words[3]) = Null \/ clean_decimal(words[4]) = Null
       THEN Raises("TypeError")                                 \* 179: None in a division
       ELSE IF words[3].value = 0 THEN Raises("DivisionByZero")
       ELSE Scheme_(DepositoryScheme(words[1], Num(words[4].value \div words[3].value),
                                     clean_decimal(words[3]), clean_decimal(words[4]),
                                     scheme_type))

\* cdsl/processor.py 190-195
extract_scheme_details(row, scheme_type, ac_type) ==
    IF ac_type \in {"CDSL", "MF"} THEN extract_cdsl_scheme(row, scheme_type)
    ELSE IF ac_type = "NSDL" THEN extract_nsdl_scheme(row, scheme_type)
    ELSE NoScheme

SdIdle == sd_i = 0 /\ sd_schemes = <<>> /\ sd_error = "None"
SdIdleInit == sd_pc = "idle" /\ sd_key = <<>> /\ sd_rows = <<>> /\ SdIdle
\* cdsl/processor.py 317-318: a buffer and the rows recovered from it
SdInit == sd_pc = "rows" /\ sd_key \in BufferKeys /\ sd_rows \in TableRowLists /\ SdIdle

SdRest == UNCHANGED <<foldVars, txVars, rcVars, smVars, psVars, rlVars, tvVars, dmVars, tbVars, pgVars>>

\* cdsl/processor.py 318-322: one row of the buffer
ExtractSchemeRow ==
    /\ sd_pc = "rows" /\ sd_i < Len(sd_rows)
    /\ LET found == extract_scheme_details(sd_rows[sd_i + 1], sd_key.scheme_type, sd_key.ac_type)
       IN IF found.error # "None"
          THEN /\ sd_pc' = "raised" /\ sd_error' = found.error
               /\ UNCHANGED <<sd_i, sd_schemes>>
          ELSE /\ sd_i' = sd_i + 1
               /\ sd_schemes' = IF found.scheme = <<>> THEN sd_schemes
                                ELSE Append(sd_schemes,
                                            [found.scheme[1] EXCEPT !.dp_id = sd_key.dp_id,
                                                                    !.client_id = sd_key.client_id])
               /\ UNCHANGED <<sd_pc, sd_error>>
    /\ UNCHANGED <<sd_key, sd_rows>>
    /\ SdRest

\* cdsl/processor.py 324
ReturnSchemes ==
    /\ sd_pc = "rows" /\ sd_i = Len(sd_rows)
    /\ sd_pc' = "done"
    /\ UNCHANGED <<sd_key, sd_rows, sd_i, sd_schemes, sd_error>>
    /\ SdRest

----------------------------------------------------------------------------
(* CASParser.parse_pdf: the pages of a document, each with its own          *)
(* recover_lines and get_header_positions                                   *)

MaxPageWords == 2      \* words on a page of the document

\* a document of two pages
Pages == {1, 2}
\* The words a page of the document may hold: a word of a text line, a header
\* label above it and a rule drawn down the page.  A page may hold no word.
DocumentWords ==
    { WordData(Rect(10, 100, 30, 112), "Fund"),
      WordData(Rect(100, 80, 150, 92), "Amount"),
      WordData(Rect(1, 100, 3, 140), "|") }
PageWordLists == UNION {[1..n -> DocumentWords] : n \in 0..MaxPageWords}

\* the locals of recover_lines for one page, and the headers of the page
NewJob == [pc |-> "new", i |-> 0, line |-> <<>>, lrect |-> NoRect, lines |-> <<>>,
           out |-> <<>>, headers |-> <<>>]
PageData(lines_data, headers_data) == [lines_data |-> lines_data, headers_data |-> headers_data]

\* parser.py 289-299: document_data holds a PageData for each page that was not
\* skipped, in the order of the pages
RECURSIVE document_data_upto(_, _)
document_data_upto(jobs, n) ==
    IF n = 0 THEN <<>>
    ELSE document_data_upto(jobs, n - 1)
         \o (IF jobs[n].pc = "done" THEN <<PageData(jobs[n].out, jobs[n].headers)>> ELSE <<>>)
RECURSIVE document_data_LastFirst_upto(_, _)
document_data_LastFirst_upto(jobs, n) ==
    IF n = 0 THEN <<>>
    ELSE (IF jobs[n].pc = "done" THEN <<PageData(jobs[n].out, jobs[n].headers)>> ELSE <<>>)
         \o document_data_LastFirst_upto(jobs, n - 1)
document_data_LastFirst(jobs) == document_data_LastFirst_upto(jobs, Cardinality(Pages))
document_data(jobs) == document_data_upto(jobs, Cardinality(Pages))

PgIdleInit ==
    /\ pg_pc = "idle" /\ pg_nsdl = FALSE /\ pg_words = <<>> /\ pg_job = <<>> /\ pg_doc = <<>>
\* parser.py 287-288
PgInit ==
    /\ pg_pc = "pages" /\ pg_nsdl \in BOOLEAN /\ pg_words \in [Pages -> PageWordLists]
    /\ pg_job = [p \in Pages |-> NewJob] /\ pg_doc = <<>>

PgRest == UNCHANGED <<foldVars, txVars, rcVars, smVars, psVars, rlVars, tvVars, dmVars, tbVars, sdVars>>
PgFrame == UNCHANGED <<pg_pc, pg_nsdl, pg_words, pg_doc>> /\ PgRest

\* parser.py 290-295: the first page of an NSDL document and a page without
\* words are skipped
skips_page(nsdl, page_num, words) == (nsdl /\ page_num = 0) \/ words = <<>>

SkipPage(p) ==
    /\ pg_pc = "pages" /\ pg_job[p].pc = "new"
    /\ skips_page(pg_nsdl, p - 1, pg_words[p])
    /\ pg_job' = [pg_job EXCEPT ![p].pc = "skipped"]
    /\ PgFrame

\* parser.py 298 (headers_data) and 234-243
PageHeaderPositions(p) ==
    /\ pg_pc = "pages" /\ pg_job[p].pc = "new"
    /\ ~skips_page(pg_nsdl, p - 1, pg_words[p])
    /\ pg_job' = [pg_job EXCEPT ![p].pc = "headers",
                                ![p].headers = get_header_positions(pg_words[p])]
    /\ PgFrame

\* parser.py 204-206
PageStartLines(p) ==
    /\ pg_pc = "pages" /\ pg_job[p].pc = "headers"
    /\ pg_job' = [pg_job EXCEPT ![p].pc = "scan", ![p].i = 2,
                                ![p].line = <<pg_words[p][1]>>,
                                ![p].lrect = pg_words[p][1].rect]
    /\ PgFrame

\* parser.py 208-223
PageRecoverWord(p) ==
    /\ pg_pc = "pages" /\ pg_job[p].pc = "scan" /\ pg_job[p].i <= Len(pg_words[p])
    /\ LET j == pg_job[p]
           w == pg_words[p][j.i]
       IN pg_job' =
            [pg_job EXCEPT ![p] =
                IF is_vertical(w.rect) THEN [j EXCEPT !.i = @ + 1]
                ELSE IF matches_line(j.lrect, w.rect)
                THEN [j EXCEPT !.i = @ + 1, !.line = Append(@, w),
                               !.lrect = RectUnion(@, w.rect)]
                ELSE [j EXCEPT !.i = @ + 1, !.lines = Append(@, closed_line(j.line, j.lrect)),
                               !.line = <<w>>, !.lrect = w.rect]]
    /\ PgFrame

\* parser.py 225-231
PageFinishLines(p) ==
    /\ pg_pc = "pages" /\ pg_job[p].pc = "scan" /\ pg_job[p].i > Len(pg_words[p])
    /\ pg_job' = [pg_job EXCEPT ![p].pc = "done",
                                ![p].out = finish_lines(pg_job[p].lines, pg_job[p].line,
                                                        pg_job[p].lrect)]
    /\ PgFrame

\* parser.py 297-301: the PageData of the pages, in page order
AssembleDocument ==
    /\ pg_pc = "pages" /\ \A p \in Pages : pg_job[p].pc \in {"done", "skipped"}
    /\ pg_doc' = document_data(pg_job)
    /\ pg_pc' = "assembled"
    /\ UNCHANGED <<pg_nsdl, pg_words, pg_job>>
    /\ PgRest

----------------------------------------------------------------------------
(* The groups a specification does not run stay idle *)

OtherIdleInit ==
    PsIdleInit /\ RlIdleInit /\ TvIdleInit /\ DmIdleInit /\ TbIdleInit /\ SdIdleInit /\ PgIdleInit

PgFullInit ==
    FoldIdle /\ TxIdleInit /\ RcIdleInit /\ SmIdleInit /\ PsIdleInit /\ RlIdleInit /\ TvIdleInit
    /\ DmIdleInit /\ TbIdleInit /\ SdIdleInit /\ PgInit
PgFullNext ==
    \/ \E p \in Pages : SkipPage(p)
    \/ \E p \in Pages : PageHeaderPositions(p)
    \/ \E p \in Pages : PageStartLines(p)
    \/ \E p \in Pages : PageRecoverWord(p)
    \/ \E p \in Pages : PageFinishLines(p)
    \/ AssembleDocument
SpecPages == PgFullInit /\ [][PgFullNext]_vars

PsFullInit ==
    FoldIdle /\ TxIdleInit /\ RcIdleInit /\ SmIdleInit /\ PsInit /\ RlIdleInit /\ TvIdleInit /\ DmIdleInit
    /\ TbIdleInit /\ SdIdleInit /\ PgIdleInit
PsFullNext == GetDocument \/ ParsePdf \/ Dispatch \/ RunDetailed \/ RunSummary
SpecParse == PsFullInit /\ [][PsFullNext]_vars

RlFullInit ==
    FoldIdle /\ TxIdleInit /\ RcIdleInit /\ SmIdleInit /\ PsIdleInit /\ RlInit /\ TvIdleInit /\ DmIdleInit
    /\ TbIdleInit /\ SdIdleInit /\ PgIdleInit
RlFullNext == GetHeaderPositions \/ StartLines \/ RecoverWord \/ FinishLines
SpecLines == RlFullInit /\ [][RlFullNext]_vars

TvFullInit ==
    FoldIdle /\ TxIdleInit /\ RcIdleInit /\ SmIdleInit /\ PsIdleInit /\ RlIdleInit /\ TvInit /\ DmIdleInit
    /\ TbIdleInit /\ SdIdleInit /\ PgIdleInit
TvFullNext == StartTransaction \/ ResolveToken \/ AppendTransaction \/ ReturnTransactions
SpecValues == TvFullInit /\ [][TvFullNext]_vars

DmFullInit ==
    FoldIdle /\ TxIdleInit /\ RcIdleInit /\ SmIdleInit /\ PsIdleInit /\ RlIdleInit /\ TvIdleInit
    /\ DmInit /\ TbIdleInit /\ SdIdleInit /\ PgIdleInit
DmFullNext == ProcessDematLine \/ NextPage \/ ReturnStatement
SpecDemat == DmFullInit /\ [][DmFullNext]_vars

TbFullInit ==
    FoldIdle /\ TxIdleInit /\ RcIdleInit /\ SmIdleInit /\ PsIdleInit /\ RlIdleInit /\ TvIdleInit
    /\ DmIdleInit /\ TbInit /\ SdIdleInit /\ PgIdleInit
TbFullNext == StartTable \/ RecoverTableWord \/ YieldTableLines
SpecTable == TbFullInit /\ [][TbFullNext]_vars

SdFullInit ==
    FoldIdle /\ TxIdleInit /\ RcIdleInit /\ SmIdleInit /\ PsIdleInit /\ RlIdleInit /\ TvIdleInit
    /\ DmIdleInit /\ TbIdleInit /\ SdInit /\ PgIdleInit
SdFullNext == ExtractSchemeRow \/ ReturnSchemes
SpecSchemes == SdFullInit /\ [][SdFullNext]_vars

\* lines 183-189
FoldInit ==
    /\ pc = "fold" /\ nlines = 0 /\ line = Blank /\ peek = "eop"
    /\ current_amc = None /\ current_folio = None /\ current_pan = None
    /\ current_scheme = <<>> /\ current_registrar = None
    /\ schemes = <<>> /\ created = 0 /\ error = None /\ result = <<>>
    /\ fold_page = 0 /\ txn_headers = 0 /\ ahead = {}

Ctx == Context(current_amc, current_folio, current_pan, current_scheme,
               current_registrar, schemes, created)

\* the lines that can come next: the line after a line that is not the last of its
\* page holds for patterns.SCHEME what the lookahead of that line saw
NextLines == {l \in Lines : peek = "eop" \/ l.scheme = peek}

SetContext(c) ==
    /\ current_amc' = c.amc
    /\ current_folio' = c.folio
    /\ current_pan' = c.pan
    /\ current_scheme' = c.scheme
    /\ current_registrar' = c.registrar
    /\ schemes' = c.schemes
    /\ created' = c.created

\* one line of a page is folded
FoldLine ==
    /\ pc = "fold"
    /\ nlines < MaxLines
    /\ \E l \in NextLines, nxt \in Lookaheads :
          /\ ~fold_line(Ctx, l, nxt).raised
          /\ SetContext(fold_line(Ctx, l, nxt).ctx)
          /\ line' = l
          /\ peek' = nxt
    /\ nlines' = nlines + 1
    /\ UNCHANGED <<pc, error, result>>
    /\ UNCHANGED <<txVars, rcVars, smVars, otherVars>>

ProcessLine == FoldLine /\ UNCHANGED pageVars

\* the same, with the page of the line, the headers handed to extract_transactions
\* and the schemes that took transactions ahead of their header kept track of
ProcessLineOfPage ==
    /\ FoldLine
    /\ fold_page' = (IF peek = "eop" THEN fold_page + 1 ELSE fold_page)
    /\ txn_headers' = IF calls_extract_transactions(Ctx, line', peek')
                      THEN headers_of(fold_page') ELSE txn_headers
    /\ ahead' = IF /\ created' > created
                   /\ ~HeaderOnLine(line')
                   /\ current_scheme'[1].transactions # <<>>
                THEN ahead \cup {created'} ELSE ahead

\* line 214: raise CASParseError("Layout Error! Scheme found before folio entry.")
RaiseLayoutError ==
    /\ pc = "fold"
    /\ nlines < MaxLines
    /\ \E l \in NextLines, nxt \in Lookaheads :
          /\ fold_line(Ctx, l, nxt).raised
          /\ line' = l
          /\ peek' = nxt
    /\ nlines' = nlines + 1
    /\ pc' = "raised"
    /\ error' = "CASParseError"
    /\ UNCHANGED <<current_amc, current_folio, current_pan, current_scheme,
                   current_registrar, schemes, created, result>>
    /\ UNCHANGED <<txVars, rcVars, smVars, otherVars>>

LayoutError == RaiseLayoutError /\ UNCHANGED pageVars

LayoutErrorOfPage ==
    /\ RaiseLayoutError
    /\ fold_page' = (IF peek = "eop" THEN fold_page + 1 ELSE fold_page)
    /\ UNCHANGED <<txn_headers, ahead>>

\* lines 265-267: the loops are over; the last line read was the last of its page
EndOfInput ==
    /\ pc = "fold"
    /\ peek = "eop"
    /\ SetContext(finalize_current_scheme(Ctx))
    /\ pc' = "folded"
    /\ line' = Blank
    /\ UNCHANGED <<nlines, peek, error, result, pageVars>>
    /\ UNCHANGED <<txVars, rcVars, smVars, otherVars>>

\* parse_cams_pdf, lines 36-53: the Reconciler when sort_transactions, and the return
Return ==
    /\ pc = "folded"
    /\ \E sort_transactions \in BOOLEAN :
          result' = <<[sorted |-> sort_transactions,
                       schemes |-> IF sort_transactions THEN sort_all(schemes) ELSE schemes]>>
    /\ pc' = "returned"
    /\ UNCHANGED <<nlines, line, peek, current_amc, current_folio, current_pan,
                   current_scheme, current_registrar, schemes, created, error, pageVars>>
    /\ UNCHANGED <<txVars, rcVars, smVars, otherVars>>

Init == FoldInit /\ TxIdleInit /\ RcIdleInit /\ SmIdleInit /\ OtherIdleInit
Next == ProcessLine \/ LayoutError \/ EndOfInput \/ Return
Spec == Init /\ [][Next]_vars

\* process_detailed_version with the pages of the lines kept track of
PagedNext == ProcessLineOfPage \/ LayoutErrorOfPage \/ EndOfInput \/ Return
SpecPaged == Init /\ [][PagedNext]_vars

TxFullInit == FoldIdle /\ TxInit /\ RcIdleInit /\ SmIdleInit /\ OtherIdleInit
TxStep == ExtractTransaction /\ UNCHANGED <<foldVars, rcVars, smVars, otherVars>>
TxConstruct == NewTransactionData /\ UNCHANGED <<foldVars, rcVars, smVars, otherVars>>
TxFullNext == TxStep \/ TxConstruct
SpecTxn == TxFullInit /\ [][TxFullNext]_vars

RcFullInit == FoldIdle /\ TxIdleInit /\ RcInit /\ SmIdleInit /\ OtherIdleInit
RcStep == Reconcile /\ UNCHANGED <<foldVars, txVars, smVars, otherVars>>
RcFullNext == RcStep
SpecRecon == RcFullInit /\ [][RcFullNext]_vars

----------------------------------------------------------------------------
(* SpecSummary: process_summary_version *)

\* A line of a summary statement: row is what patterns.SUMMARY_ROW captures (<<>>
\* when the line is no scheme row), total is re.search("Total", line, re.I), text
\* is line.strip().
SummaryRows == {[folio |-> f, name |-> "S1", balance |-> Num(2)] : f \in Folios}
SummaryLines ==
    {[row |-> <<>>, total |-> FALSE, text |-> "tail"],
     [row |-> <<>>, total |-> TRUE, text |-> "Total"]}
    \cup {[row |-> <<r>>, total |-> t, text |-> "row"] : r \in SummaryRows, t \in BOOLEAN}

\* lines 274-277
SmInit ==
    /\ sm_pc = "scan" /\ sm_page = 1 /\ sm_schemes = <<>> /\ sm_current = <<>>
    /\ sm_folio = None /\ sm_rows = 0 /\ sm_lines = 0 /\ sm_total = FALSE
    /\ sm_line = NoSummaryLine

\* lines 295-321: the Scheme of a summary row; scheme_name is the list of the texts
\* joined by single spaces
summary_scheme(id, r) ==
    [Scheme(id, <<r.name>>, "N/A", "N/A", r.folio, r.balance, r.balance, r.balance,
            SchemeValuation("D1", Num(0), Num(0), Num(0)))
        EXCEPT !.rta = "R1"]

\* lines 324-326: current_scheme.scheme_name = f"{current_scheme.scheme_name} {line.strip()}"
append_tail_Replace(s, text) == [s EXCEPT !.scheme_name = <<text>>]
append_tail(s, text) == [s EXCEPT !.scheme_name = Append(@, text)]

\* lines 286-326: the body of `for line in page_lines`; sm_rows counts the rows the
\* loop matched
SummaryLine ==
    /\ sm_pc = "scan"
    /\ sm_lines < MaxSummaryLines
    /\ sm_lines' = sm_lines + 1
    /\ \E l \in SummaryLines :
          /\ sm_line' = l
          /\ sm_total' = (sm_total \/ (sm_rows >= 1 /\ l.total))
          /\ IF sm_schemes # <<>> /\ l.total
             THEN /\ sm_pc' = "break"
                  /\ UNCHANGED <<sm_schemes, sm_current, sm_folio, sm_rows>>
             ELSE IF l.row # <<>>
             THEN /\ sm_schemes' = sm_schemes \o sm_current
                  /\ sm_folio' = l.row[1].folio
                  /\ sm_current' = <<summary_scheme(sm_rows + 1, l.row[1])>>
                  /\ sm_rows' = sm_rows + 1
                  /\ UNCHANGED sm_pc
             ELSE /\ sm_current' =
                        IF sm_current # <<>>
                        THEN <<append_tail(sm_current[1], l.text)>>
                        ELSE sm_current
                  /\ UNCHANGED <<sm_pc, sm_schemes, sm_folio, sm_rows>>
    /\ UNCHANGED sm_page
    /\ UNCHANGED <<foldVars, txVars, rcVars, otherVars>>

\* line 279: the next page_data of document_data (after the lines of the page, or
\* after the break of line 288, which leaves the loop over the lines only)
SummaryNextPage ==
    /\ sm_pc \in {"scan", "break"}
    /\ sm_page < MaxSummaryPages
    /\ sm_page' = sm_page + 1
    /\ sm_pc' = "scan"
    /\ UNCHANGED <<sm_schemes, sm_current, sm_folio, sm_rows, sm_lines, sm_total, sm_line>>
    /\ UNCHANGED <<foldVars, txVars, rcVars, otherVars>>

\* line 328
SummaryReturn ==
    /\ sm_pc \in {"scan", "break"}
    /\ sm_pc' = "returned"
    /\ UNCHANGED <<sm_page, sm_schemes, sm_current, sm_folio, sm_rows, sm_lines, sm_total, sm_line>>
    /\ UNCHANGED <<foldVars, txVars, rcVars, otherVars>>

SmFullInit == FoldIdle /\ TxIdleInit /\ RcIdleInit /\ SmInit /\ OtherIdleInit
SmFullNext == SummaryLine \/ SummaryNextPage \/ SummaryReturn
SpecSummary == SmFullInit /\ [][SmFullNext]_vars

----------------------------------------------------------------------------
(* Claims *)

AllSchemes == {schemes[i] : i \in 1..Len(schemes)} \cup {current_scheme[i] : i \in 1..Len(current_scheme)}
Folding == pc \in {"fold", "folded"}
TxnsSince(s) == SubSeq(s.transactions, s.open_at + 1, Len(s.transactions))
\* the step consumes a line of the statement
ReadsLine == pc = "fold" /\ nlines' = nlines + 1
\* the name extract_scheme_details finds for the line the step consumes
HeaderRead == scheme_line_details(line', peek')
AtFolioRule == ReadsLine /\ line'.amc = None /\ line'.folio \notin {None, current_folio}
AtSchemeRule == ReadsLine /\ line'.amc = None /\ line'.folio \in {None, current_folio}
                          /\ HeaderRead # None

\* C1 (as stated): in process_detailed_version every scheme, current or in the
\* output, has close_calculated = open + the sum of the non-null units of all the
\* transactions appended to it.
C1_CloseCalculatedAllTransactions ==
    Folding => \A s \in AllSchemes :
                  s.close_calculated = Num(Val(s.open) + SumUnits(s.transactions))

\* C1 (amended): every scheme, current or in the output, has close_calculated =
\* open + the sum of the non-null units of the transactions appended to it after
\* its last opening-balance line (all its transactions when no opening-balance
\* line followed a transaction).
C1_CloseCalculatedSinceOpening ==
    Folding => \A s \in AllSchemes :
                  /\ s.close_calculated = Num(Val(s.open) + SumUnits(TxnsSince(s)))
                  /\ s.open_at = 0 =>
                        s.close_calculated = Num(Val(s.open) + SumUnits(s.transactions))

\* a scheme took a transaction with units, then an opening balance
C1_Witness ==
    \E s \in AllSchemes : /\ s.open_at > 0
                          /\ SumUnits(s.transactions) # SumUnits(TxnsSince(s))
                          /\ s.close_calculated = s.open

\* C2: a scheme-header line reaching the scheme rule while no folio is active
\* raises CASParseError, and nothing is returned to the caller, then or later.
C2_SchemeBeforeFolioRaises ==
    [][/\ (AtSchemeRule /\ current_folio = None)
            => (pc' = "raised" /\ error' = "CASParseError" /\ result' = <<>>)
       /\ pc = "raised" => (pc' = "raised" /\ result' = <<>>)
       /\ (pc' = "raised") = (error' = "CASParseError")]_vars

C2_Witness ==
    pc = "raised" /\ line.scheme # None /\ current_folio = None /\ result = <<>>

\* C3: a folio line with a folio other than the current one appends the current
\* scheme (if any) to the output, resets it to none, makes the folio and the PAN of
\* the line (or none) current, and does nothing else.
C3_FolioChange ==
    [][AtFolioRule =>
          /\ schemes' = schemes \o current_scheme
          /\ current_scheme' = <<>>
          /\ current_folio' = line'.folio
          /\ current_pan' = line'.pan
          /\ UNCHANGED <<current_amc, current_registrar, created, pc, error, result>>]_vars

C3_Witness ==
    /\ pc = "fold" /\ line.amc = None /\ line.folio = current_folio /\ line.pan = None
    /\ current_pan = None /\ current_scheme = <<>>
    /\ schemes # <<>> /\ schemes[Len(schemes)].folio # current_folio
    /\ schemes[Len(schemes)].pan # None

\* C4: the output grows only by the current scheme, and exactly when a folio line
\* changes the folio, a scheme header names another scheme, or the input ends; the
\* schemes of the output are in creation order, none twice, and the current scheme
\* is not in the output.
C4_Finalized ==
    [][LET folio_changes == AtFolioRule
           name_changes == /\ AtSchemeRule /\ current_scheme # <<>>
                           /\ current_scheme[1].scheme_name # HeaderRead
           input_ends == pc = "fold" /\ pc' = "folded"
       IN /\ schemes' # schemes =>
                /\ current_scheme # <<>>
                /\ schemes' = Append(schemes, current_scheme[1])
                /\ folio_changes \/ name_changes \/ input_ends
          /\ (current_scheme # <<>> /\ (folio_changes \/ name_changes \/ input_ends)) =>
                schemes' = Append(schemes, current_scheme[1])
          /\ \A i, j \in 1..Len(schemes') : i < j => schemes'[i].id < schemes'[j].id
          /\ \A i \in 1..Len(schemes') :
                current_scheme' # <<>> => schemes'[i].id < current_scheme'[1].id]_vars

\* a header naming another scheme, then the end of the input, moved two schemes
C4_Witness ==
    /\ pc = "folded" /\ Len(schemes) = 2
    /\ schemes[1].folio = schemes[2].folio
    /\ schemes[1].scheme_name # schemes[2].scheme_name

\* C5: process_summary_version returns one Scheme per matched summary row, in row
\* order: n matched rows give n schemes, the last row included.
C5_OneSchemePerRow ==
    sm_pc = "returned" =>
        /\ Len(sm_schemes) = sm_rows
        /\ \A i \in 1..Len(sm_schemes) : sm_schemes[i].id = i

\* C6 (as stated): with a numeric amount, null units give amount = given amount *
\* the direction of the type; non-null units give the amount the sign of the units,
\* zero units included.
C6_AmountSignOfUnits ==
    (tx_out # <<>> /\ TxGivenAmount # Null) =>
        LET t == tx_out[1]
            a == Val(TxGivenAmount)
        IN /\ t.units = TxGivenUnits
           /\ t.units = Null => t.amount = Num(HOLDINGS_CASHFLOW(t.type) * a)
           /\ (t.units # Null /\ Val(t.units) > 0) => Val(t.amount) >= 0
           /\ (t.units # Null /\ Val(t.units) < 0) => Val(t.amount) <= 0
           /\ (t.units # Null /\ Val(t.units) = 0) => Val(t.amount) = 0

\* C6 (amended): with a numeric amount, null units give amount = given amount * the
\* direction of the type; units > 0 give amount = |given amount| >= 0; units <= 0,
\* zero included, give amount = -|given amount| <= 0.
C6_AmountSign ==
    (tx_out # <<>> /\ TxGivenAmount # Null) =>
        LET t == tx_out[1]
            a == Val(TxGivenAmount)
        IN /\ t.units = TxGivenUnits
           /\ t.units = Null => t.amount = Num(HOLDINGS_CASHFLOW(t.type) * a)
           /\ (t.units # Null /\ Val(t.units) > 0) => t.amount = Num(Abs(a))
           /\ (t.units # Null /\ Val(t.units) <= 0) => t.amount = Num(-Abs(a))

\* a transaction of zero units and a positive amount was built from its tokens
C6_Witness ==
    /\ tx_out # <<>> /\ tx_in.op = "extract"
    /\ tx_out[1].units = Num(0) /\ tx_out[1].amount = Num(-5)

\* C7: get_transaction_type is the first-match-wins table: dividend (with the
\* captured rate) whatever the units; null units: STT, stamp, TDS, MISC; units > 0:
\* switch-in (merger), segregation, SIP, purchase; units < 0: reversal, switch-out
\* (merger), redemption; units = 0: MISC on a miscellaneous keyword, else UNKNOWN.
\* The rate is non-null for the two dividend types only.
C7_DecisionTable ==
    (tx_out # <<>> /\ tx_in.op = "extract") =>
        LET d == tx_in.description
            k == d.kw
            u == formatINR(tx_in.units, TRUE)
            t == tx_out[1].type
            rate == tx_out[1].dividend_rate
        IN /\ t \in TransactionTypes
           /\ d.div.found =>
                 /\ t = IF d.div.reinvest THEN "DIVIDEND_REINVEST" ELSE "DIVIDEND_PAYOUT"
                 /\ rate = Num(d.div.rate)
           /\ (~d.div.found /\ u = Null) =>
                 t = IF "stt" \in k THEN "STT_TAX"
                     ELSE IF "stamp" \in k THEN "STAMP_DUTY_TAX"
                     ELSE IF "tds" \in k THEN "TDS_TAX" ELSE "MISC"
           /\ (~d.div.found /\ u # Null /\ Val(u) > 0) =>
                 t = IF "switch" \in k
                     THEN (IF "merger" \in k THEN "SWITCH_IN_MERGER" ELSE "SWITCH_IN")
                     ELSE IF "segregat" \in k THEN "SEGREGATION"
                     ELSE IF \E w \in {"sip", "systematic", "instalment", "sys_invest"} : w \in k
                     THEN "PURCHASE_SIP" ELSE "PURCHASE"
           /\ (~d.div.found /\ u # Null /\ Val(u) < 0) =>
                 t = IF "reversal" \in k THEN "REVERSAL"
                     ELSE IF "switch" \in k
                     THEN (IF "merger" \in k THEN "SWITCH_OUT_MERGER" ELSE "SWITCH_OUT")
                     ELSE "REDEMPTION"
           /\ (~d.div.found /\ u # Null /\ Val(u) = 0) =>
                 t = IF "misc" \in k THEN "MISC" ELSE "UNKNOWN"
           /\ (rate # Null) = (t \in {"DIVIDEND_REINVEST", "DIVIDEND_PAYOUT"})

\* a reversal that also names a switch, with negative units
C7_Witness ==
    /\ tx_out # <<>> /\ tx_in.op = "extract"
    /\ tx_in.description.kw = {"reversal", "switch"} /\ ~tx_in.description.div.found
    /\ tx_out[1].units = Num(-3) /\ tx_out[1].type = "REVERSAL"

IsDateOrdered(txns) == \A i \in 1..(Len(txns) - 1) : txns[i].date <= txns[i + 1].date
WithoutBalance(txns) == [i \in 1..Len(txns) |-> [txns[i] EXCEPT !.balance = Null]]
OnDate(txns, d) == LET Is(t) == t.date = d IN SelectSeq(txns, Is)

\* C8: a scheme whose transactions are not in non-decreasing date order gets the
\* stable date-sorted permutation of them (per date, the same transactions in the
\* same order), and the i-th balance is open + the units of transactions 1..i,
\* null counting as zero.
C8_SortedAndRebalanced ==
    (rc_out # <<>> /\ ~IsDateOrdered(rc_in.transactions)) =>
        LET before == rc_in.transactions
            after == rc_out[1].transactions
        IN /\ Len(after) = Len(before)
           /\ IsDateOrdered(after)
           /\ \A d \in RcDates :
                 OnDate(WithoutBalance(after), d) = OnDate(WithoutBalance(before), d)
           /\ \A i \in 1..Len(after) :
                 after[i].balance =
                    Num(OrZero(rc_in.open) + SumUnits(SubSeq(after, 1, i)))

\* three transactions, two of one date, out of order, one with null units
C8_Witness ==
    /\ rc_out # <<>> /\ Len(rc_in.transactions) = 3
    /\ rc_in.transactions[1].date = 2
    /\ rc_in.transactions[2].date = 1 /\ rc_in.transactions[3].date = 1
    /\ rc_in.transactions[2] # rc_in.transactions[3]
    /\ rc_in.transactions[3].units = Null
    /\ rc_out[1].transactions[1].date = 1

\* C9: the Reconciler leaves a scheme with date-ordered transactions as it is, and
\* a second pass leaves the result of the first as it is.
C9_Idempotent ==
    /\ (rc_out # <<>> /\ IsDateOrdered(rc_in.transactions)) => rc_out[1] = rc_in
    /\ Len(rc_out) = 2 => rc_out[2] = rc_out[1]

\* two passes over a date-ordered scheme whose printed balance is not the running
\* sum
C9_Witness ==
    /\ Len(rc_out) = 2
    /\ Len(rc_in.transactions) = 2
    /\ IsDateOrdered(rc_in.transactions)
    /\ rc_in.transactions[2].balance = Num(7)
    /\ rc_in.transactions[1].units = Num(1)

SameBut(a, b) == [a EXCEPT !.transactions = <<>>] = [b EXCEPT !.transactions = <<>>]
Count(txns, t) == Cardinality({i \in 1..Len(txns) : txns[i] = t})
SameTransactionsButBalance(a, b) ==
    /\ Len(a) = Len(b)
    /\ \A i \in 1..Len(a) :
          Count(WithoutBalance(a), WithoutBalance(a)[i])
             = Count(WithoutBalance(b), WithoutBalance(a)[i])

\* C10: no step changes a scheme that is in the output; what parse_cams_pdf returns
\* is those schemes, each with the same fields and the same transactions up to
\* their order and balance; without sort_transactions it is the fold's list itself.
C10_Frame ==
    [][/\ \A i \in 1..Len(schemes) : i <= Len(schemes') /\ schemes'[i] = schemes[i]
       /\ pc' = "returned" =>
             LET r == result'[1]
             IN /\ Len(r.schemes) = Len(schemes)
                /\ ~r.sorted => r.schemes = schemes
                /\ \A i \in 1..Len(schemes) :
                      /\ SameBut(r.schemes[i], schemes[i])
                      /\ SameTransactionsButBalance(r.schemes[i].transactions,
                                                    schemes[i].transactions)]_vars

\* the Reconciler changed a scheme of the output
C10_Witness ==
    /\ pc = "returned" /\ result[1].sorted
    /\ result[1].schemes # schemes
    /\ Len(schemes) = 1 /\ Len(schemes[1].transactions) = 2

----------------------------------------------------------------------------
(* Claims about parse_cams_pdf (SpecParse) *)

\* parse_pdf has run: the document opened and the first page was classified
Classified == get_document(ps_input) = None /\ ps_pc \notin {"idle", "start", "opened"}
NoVendorMarker == \A i \in 1..Len(ps_blocks) : ps_blocks[i].markers = {}
NoTypeKeyword ==
    \A i \in 1..Len(ps_blocks) : ps_blocks[i].cas_type \notin {"statement", "summary"}
Unclassifiable == ps_file_type \notin {"CAMS", "KFINTECH"} \/ ps_file_version = "UNKNOWN"

\* C11: classification fails closed: with no vendor marker in any first-page
\* block the file type is UNKNOWN, with no statement/summary keyword in any
\* block the file version is UNKNOWN, and when the vendor is not CAMS/KFINTECH
\* or the variant is UNKNOWN no state machine is run and parse_cams_pdf ends by
\* raising CASParseError.
C11_FailsClosed ==
    Classified =>
        /\ NoVendorMarker => ps_file_type = "UNKNOWN"
        /\ NoTypeKeyword => ps_file_version = "UNKNOWN"
        /\ Unclassifiable =>
              /\ ps_ran = {}
              /\ ps_pc \in {"parsed", "raised"}
              /\ ps_pc = "raised" => ps_error = "CASParseError"

\* C12: parse_cams_pdf ends by returning, by raising IncorrectPasswordError (an
\* encrypted document the one authentication attempt did not unlock) or by
\* raising CASParseError; no other exception leaves it.
C12_TwoErrorKinds ==
    /\ ps_error \in {None, "IncorrectPasswordError", "CASParseError"}
    /\ ps_error = "IncorrectPasswordError" => ps_input.needs_pass /\ ~ps_input.unlocks
    /\ ps_pc = "raised" <=> ps_error # None

----------------------------------------------------------------------------
(* Claims about recover_lines and get_header_positions (SpecLines) *)

Fund == WordData(Rect(10, 100, 30, 112), "Fund")
WordA == WordData(Rect(35, 100, 40, 112), "A")
Growth == WordData(Rect(45, 100, 70, 112), "Growth")
Range(seq) == {seq[i] : i \in 1..Len(seq)}
SameWords(a, b) == Len(a) = Len(b) /\ \A w \in Range(a) : Count(a, w) = Count(b, w)
RECURSIVE LineRect(_)
LineRect(ws) == IF Len(ws) = 1 THEN ws[1].rect
                ELSE RectUnion(LineRect(SubSeq(ws, 1, Len(ws) - 1)), ws[Len(ws)].rect)

\* C13: a word of the loop that is not a vertical artifact joins the current
\* line iff its top is within 3 of the top, or its bottom within 3 of the
\* bottom, of the line's rectangle, which becomes the union of both; otherwise
\* the current line is closed (appended to the lines, with its rectangle and
\* its words) and the word alone starts the next line.  The three words Fund,
\* A, Growth at y0=100, y1=112 give exactly one line, 'Fund A Growth'.
C13_ClusteringRule ==
    [][/\ (rl_pc = "scan" /\ rl_i <= Len(rl_words) /\ ~is_vertical(rl_words[rl_i].rect)) =>
            LET w == rl_words[rl_i]
                near == \/ Abs(rl_lrect.y0 - w.rect.y0) <= 3
                        \/ Abs(rl_lrect.y1 - w.rect.y1) <= 3
            IN IF near
               THEN /\ rl_line' = Append(rl_line, w)
                    /\ rl_lrect' = RectUnion(rl_lrect, w.rect)
                    /\ rl_lines' = rl_lines
               ELSE /\ Len(rl_lines') = Len(rl_lines) + 1
                    /\ SubSeq(rl_lines', 1, Len(rl_lines)) = rl_lines
                    /\ rl_lines'[Len(rl_lines')].lrect = rl_lrect
                    /\ SameWords(rl_lines'[Len(rl_lines')].word_pos, rl_line)
                    /\ rl_line' = <<w>>
                    /\ rl_lrect' = w.rect
       /\ (rl_pc' = "done" /\ Len(rl_words) = 3 /\ Range(rl_words) = {Fund, WordA, Growth}) =>
            /\ Len(rl_out') = 1
            /\ rl_out'[1].ltext = "Fund A Growth"
            /\ rl_out'[1].word_pos = <<Fund, WordA, Growth>>]_vars

\* two lines came out, one of them holding words whose bottoms are more than 3
\* apart (joined by their tops only)
C13_Witness ==
    /\ rl_pc = "done" /\ Len(rl_out) = 2
    /\ \E i \in 1..2 : \E v, w \in Range(rl_out[i].word_pos) : w.rect.y1 - v.rect.y1 > 3

\* C14: the lines come out in non-decreasing order of the bottom edge of their
\* rectangle, each with its words in non-decreasing order of left edge and
\* with the text of those words joined by single spaces.
C14_ReadingOrder ==
    rl_pc = "done" =>
        /\ \A i, j \in 1..Len(rl_out) :
              i < j => LineRect(rl_out[i].word_pos).y1 <= LineRect(rl_out[j].word_pos).y1
        /\ \A i \in 1..Len(rl_out) :
              LET ws == rl_out[i].word_pos
              IN /\ \A k \in 1..(Len(ws) - 1) : ws[k].rect.x0 <= ws[k + 1].rect.x0
                 /\ rl_out[i].ltext = join_words(ws)

\* the first word of the page came out in the second line, and a line has two
\* words in the opposite of their extraction order
C14_Witness ==
    /\ rl_pc = "done" /\ Len(rl_words) = 3 /\ Len(rl_out) = 2
    /\ rl_words[1] \in Range(rl_out[2].word_pos)
    /\ \E i \in 1..2 : /\ Len(rl_out[i].word_pos) = 2
                       /\ rl_out[i].word_pos = <<rl_words[3], rl_words[2]>>
                       /\ rl_words[3].rect.x0 < rl_words[2].rect.x0

\* C15: no line is empty, neither the one being collected nor one that comes
\* out, and a page of exactly one word gives exactly one line.
C15_NoEmptyLine ==
    /\ rl_pc = "scan" => rl_line # <<>>
    /\ \A i \in 1..Len(rl_lines) : rl_lines[i].word_pos # <<>>
    /\ rl_pc = "done" =>
          /\ Len(rl_out) >= 1
          /\ \A i \in 1..Len(rl_out) : rl_out[i].word_pos # <<>>
          /\ Len(rl_words) = 1 => Len(rl_out) = 1 /\ rl_out[1].word_pos = rl_words

\* a page of one word has been turned into lines
C15_Witness == rl_pc = "done" /\ Len(rl_words) = 1 /\ Len(rl_out) = 1

\* C16: a label is in the result iff some word of the page matches it, and its
\* anchor is the rectangle of a matching word than which no matching word has a
\* smaller top; a page matching some of the labels gives a partial map.
C16_TopmostAnchor ==
    rl_pc \in {"headers", "scan", "done"} =>
        /\ DOMAIN rl_headers \subseteq Range(HeaderLabels)
        /\ \A header \in Range(HeaderLabels) :
              LET found == {w \in Range(rl_words) : header_match(header, w.text)}
              IN /\ header \in DOMAIN rl_headers <=> found # {}
                 /\ header \in DOMAIN rl_headers =>
                       /\ \E w \in found : rl_headers[header] = w.rect
                       /\ \A w \in found : rl_headers[header].y0 <= w.rect.y0

\* two words match the same label, the lower one comes first on the page, and
\* another label has no match
C16_Witness ==
    /\ rl_pc = "headers"
    /\ DOMAIN rl_headers = {"amount"}
    /\ header_match("amount", rl_words[1].text)
    /\ rl_headers["amount"].y0 < rl_words[1].rect.y0

----------------------------------------------------------------------------
(* Claims about the values of extract_transactions (SpecValues) *)

LabelIndex(h) == CHOOSE k \in 1..4 : HeaderLabels[k] = h
TokenOf(u) == tv_txns[u.t][u.k]

\* C17: a token whose word was found is given to a header whose band, widened
\* by 20 to the left and 5 to the right, holds the word (x0 >= h.x0 - 20 and
\* x1 <= h.x1 + 5); of several such headers the first in the order amount,
\* units, nav, balance gets it; with no such header no field changes.  The
\* example line (anchors Amount [100,150], Units [160,210], NAV [220,270],
\* Balance [280,330], tokens at x = 105, 165, 225, 285) gives amount, units,
\* nav, balance in that order, and so does the line without its NAV token,
\* whose nav stays null.
C17_FirstHeaderWins ==
    [][/\ (tv_pc = "resolve" /\ Len(tv_used') = Len(tv_used) + 1) =>
            LET u == tv_used'[Len(tv_used')]
                r == u.word.rect
                hs == {h \in DOMAIN tv_headers :
                          r.x0 >= tv_headers[h].x0 - 20 /\ r.x1 <= tv_headers[h].x1 + 5}
            IN IF hs = {}
               THEN tv_values' = tv_values
               ELSE \E h \in hs :
                       /\ \A g \in hs : LabelIndex(h) <= LabelIndex(g)
                       /\ tv_values' = [tv_values EXCEPT ![h] = tv_txns[u.t][u.k]]
       /\ (tv_pc' = "done" /\ tv_headers = Anchors /\ tv_line = ExampleWords
             /\ tv_txns = << <<"500.00", "10.500", "47.6190", "210.500">> >>) =>
            tv_out' = <<[amount |-> "500.00", units |-> "10.500",
                         nav |-> "47.6190", balance |-> "210.500"]>>
       /\ (tv_pc' = "done" /\ tv_headers = Anchors
             /\ tv_line = <<ExampleWords[1], ExampleWords[2], ExampleWords[4]>>
             /\ tv_txns = << <<"500.00", "10.500", "210.500">> >>) =>
            tv_out' = <<[amount |-> "500.00", units |-> "10.500",
                         nav |-> None, balance |-> "210.500"]>>]_vars

\* a word in the band of Amount and of Units gave its token to amount, and a
\* token whose word is in no band was dropped
C17_Witness ==
    /\ tv_pc = "done" /\ tv_headers = Anchors /\ Len(tv_out) = 1 /\ Len(tv_used) = 2
    /\ tv_used[1].word.rect.x0 = 142 /\ tv_used[2].word.rect.x0 = 400
    /\ tv_out[1] = [NoValues EXCEPT !.amount = "10.500"]

\* C18 as stated: exactly four tokens are assigned by position, every other
\* number of tokens is resolved through the header anchors.
C18_ExactlyFourPositional ==
    [][tv_t' = tv_t + 1 =>
          LET values == tv_txns[tv_t']
          IN IF Len(values) = 4
             THEN tv_pc' = "assigned" /\ tv_values' = assign_positional(values)
             ELSE tv_pc' = "resolve" /\ tv_values' = NoValues]_vars

\* C18: four or more tokens are assigned by position, the first four as
\* amount, units, nav, balance and the rest ignored, without touching the
\* line's words; fewer than four (0 to 3) are each resolved through the header
\* anchors, starting from four null fields.
C18_FourOrMorePositional ==
    [][/\ tv_t' = tv_t + 1 =>
             LET values == tv_txns[tv_t']
             IN IF Len(values) >= 4
                THEN /\ tv_pc' = "assigned"
                     /\ tv_values' = [amount |-> values[1], units |-> values[2],
                                      nav |-> values[3], balance |-> values[4]]
                ELSE tv_pc' = "resolve" /\ tv_values' = NoValues /\ tv_k' = 1
       /\ tv_pc = "assigned" => tv_words' = tv_words /\ tv_used' = tv_used
       /\ (tv_pc = "resolve" /\ tv_pc' = "line") =>
             /\ tv_k = Len(tv_txns[tv_t]) + 1
             /\ tv_out' = Append(tv_out, tv_values)]_vars

\* a transaction of five tokens was built from its first four, by position
C18_Witness ==
    /\ tv_pc = "done" /\ Len(tv_txns) = 1 /\ Len(tv_txns[1]) = 5
    /\ tv_line # <<>> /\ tv_words = tv_line
    /\ tv_out = <<[amount |-> "500.00", units |-> "10.500",
                   nav |-> "47.6190", balance |-> "210.500"]>>

\* C19: a word a token was resolved against has the token's normalized text,
\* is gone from the line's word list, and is the word of no other token of the
\* line: the words left are those handed in less the words used.
C19_WordsConsumed ==
    /\ \A i, j \in 1..Len(tv_used) : i # j => tv_used[i].word # tv_used[j].word
    /\ \A i \in 1..Len(tv_used) :
          /\ tv_used[i].word \in Range(tv_line)
          /\ tv_used[i].word \notin Range(tv_words)
          /\ normalize(tv_used[i].word.text) = normalize(TokenOf(tv_used[i]))
    /\ Range(tv_words) = Range(tv_line) \ {tv_used[i].word : i \in 1..Len(tv_used)}
    /\ Len(tv_words) = Len(tv_line) - Len(tv_used)

\* two tokens of the same normalized text, in two transactions of the line,
\* were resolved against two words
C19_Witness ==
    /\ tv_pc = "done" /\ Len(tv_used) = 2
    /\ tv_used[1].t # tv_used[2].t
    /\ normalize(TokenOf(tv_used[1])) = normalize(TokenOf(tv_used[2]))
    /\ tv_used[1].word # tv_used[2].word

----------------------------------------------------------------------------
(* Claims about the demat accounts of process_statement (SpecDemat) *)

\* the lines read so far: those of the pages before the current one and the
\* lines consumed of the current page
RECURSIVE Concat(_)
Concat(pages) == IF pages = <<>> THEN <<>> ELSE Head(pages) \o Concat(Tail(pages))
LinesRead == Concat(SubSeq(dm_doc, 1, dm_pageno - 1)) \o SubSeq(dm_page, 1, dm_n)

\* the mutual-fund-folio summary header lines read so far, by position: those
\* consumed while the account section lasts (no valuation line before them)
MFHeadersRead ==
    {i \in 1..Len(LinesRead) : /\ LinesRead[i].kind = "mf"
                               /\ \A j \in 1..(i - 1) : LinesRead[j].kind # "valuation"}
RECURSIVE SumCaptured(_, _)
SumCaptured(is, field) ==
    IF is = {} THEN 0
    ELSE LET i == CHOOSE x \in is : TRUE
         IN OrZero(LinesRead[i][field]) + SumCaptured(is \ {i}, field)
MFAccounts == {a \in 1..Len(dm_accounts) : dm_accounts[a].ac_type = "MF"}
MFAccount == dm_accounts[dm_demats["MF Folios"]]

AccountKey(account) ==
    IF account.ac_type = "MF" THEN "MF Folios" ELSE account.dp_id \o account.client_id
\* the accounts created for a key, in the order of their creation
Sightings(key) == {a \in 1..Len(dm_accounts) : AccountKey(dm_accounts[a]) = key}
FirstSighting(key) == CHOOSE a \in Sightings(key) : \A b \in Sightings(key) : a <= b

\* C21 as stated: an account is created at the first header sighting of its
\* key and looked up at the later ones; the account stored under a key is
\* always the object created at the first sighting, and no second object is
\* ever created for a key.
C21_CreatedOnce ==
    \A key \in DOMAIN dm_demats :
        /\ dm_demats[key] = FirstSighting(key)
        /\ Cardinality(Sightings(key)) = 1

\* a step that reads a demat-account header line in the account section
ReadsDematHeader ==
    /\ dm_pc = "lines" /\ dm_n' = dm_n + 1
    /\ dm_process /\ dm_page[dm_n + 1].kind = "demat"
\* the text of the line before line idx of the page; no line precedes the first
PrecedingText(idx) == IF idx > 1 THEN dm_page[idx - 1].text ELSE ""
\* the DP id and the client id the line after line idx of the page carries
FollowingIds(idx) ==
    IF idx < Len(dm_page) /\ dm_page[idx + 1].kind = "dp"
    THEN <<dm_page[idx + 1].dp_id, dm_page[idx + 1].client_id>>
    ELSE <<"", "">>

\* C29 as stated: a demat-account header line at any position of a page
\* creates an account whose name is the text of the line just before the
\* header on that page, and whose DP id and client id are those of the line
\* just after it, both empty when that line carries none or the header is the
\* last line of the page.
C29_NameAndIds ==
    [][ReadsDematHeader =>
          LET account == dm_accounts'[Len(dm_accounts')] IN
          /\ Len(dm_accounts') = Len(dm_accounts) + 1
          /\ account.name = PrecedingText(dm_n + 1)
          /\ <<account.dp_id, account.client_id>> = FollowingIds(dm_n + 1)]_vars

\* the account header lines read so far in the account section, by position:
\* those of the demat accounts, and those of any account
InAccountSection(i) == \A j \in 1..(i - 1) : LinesRead[j].kind # "valuation"
DematHeadersRead ==
    {i \in 1..Len(LinesRead) : LinesRead[i].kind = "demat" /\ InAccountSection(i)}
HeadersRead == DematHeadersRead \cup MFHeadersRead
DematAccounts == {a \in 1..Len(dm_accounts) : dm_accounts[a].ac_type # "MF"}
\* the header line that created demat account a: the accounts are created in
\* the order of their header lines
HeaderOf(a) ==
    CHOOSE i \in DematHeadersRead :
        Cardinality({j \in DematHeadersRead : j <= i}) =
        Cardinality({b \in DematAccounts : b <= a})
\* the header of the account before the one of header line i, 0 at the start
PreviousHeader(i) ==
    IF \E j \in HeadersRead : j < i
    THEN CHOOSE j \in HeadersRead : j < i /\ \A k \in HeadersRead : k < i => k <= j
    ELSE 0
IsHolder(l) == l.kind = "holder"
\* the holder lines between two positions, in the order read
RECURSIVE Texts(_)
Texts(ls) == IF ls = <<>> THEN <<>> ELSE <<Head(ls).text>> \o Texts(Tail(ls))
HoldersBetween(lo, hi) == Texts(SelectSeq(SubSeq(LinesRead, lo + 1, hi - 1), IsHolder))

\* C30 as stated: the holders attached to a demat account are exactly the
\* holder lines read after the header of the previous account (or the start
\* of the input) and before the header of this account.
C30_HoldersPerAccount ==
    \A a \in DematAccounts :
        dm_lists[dm_accounts[a].holders] = HoldersBetween(PreviousHeader(HeaderOf(a)), HeaderOf(a))

\* a step that reads a line of the page, and the line it reads
ReadsDematLine == dm_pc = "lines" /\ dm_n' = dm_n + 1
DematLineRead == dm_page[dm_n + 1]
\* the step appends to a buffer
Buffers == dm_tables' # dm_tables
\* lines that open or close a region
OpensRegion(l) == l.kind \in {"heading", "mfunits"}
ClosesRegion(l) == l.kind \in {"sentinel", "transactions"}
\* the buffer of the current account, asset class and page
CurrentKey(account) ==
    <<dm_accounts[account].ac_type, dm_scheme_type, dm_accounts[account].dp_id,
      dm_accounts[account].client_id, dm_pageno>>
\* tables with the words of the line read appended to the buffer of a key
Appended(key) ==
    [k \in DOMAIN dm_tables \cup {key} |->
        IF k = key
        THEN (IF key \in DOMAIN dm_tables THEN dm_tables[key] ELSE <<>>)
             \o << <<dm_pageno, dm_n + 1>> >>
        ELSE dm_tables[k]]

\* C28 as stated: the words of a line are appended to a buffer iff a region
\* is open and an account is current when the line is reached, the heading
\* and sentinel lines excepted; they go to the buffer keyed by the current
\* account's type, the current asset class, the account's DP id and client
\* id and the current page.
C28_BufferedIffOpenAndCurrent ==
    [][ReadsDematLine =>
          LET l == DematLineRead IN
          /\ Buffers <=> (dm_table /\ dm_current # 0 /\ ~OpensRegion(l) /\ ~ClosesRegion(l))
          /\ Buffers => dm_tables' = Appended(CurrentKey(dm_current))]_vars

\* the line is taken by a rule of the account section, or ends that section
TakenByAccountRule(l) ==
    \/ dm_process /\ l.kind \in {"holder", "demat", "mf"}
    \/ l.kind = "valuation"
\* the account that is current once the line's own DP id and client id, if it
\* carries them, were looked up
CurrentAfterLookup(l) ==
    IF l.kind = "dp" THEN Get(dm_demats, l.dp_id \o l.client_id) ELSE dm_current

\* C28: a line that no rule of the account section takes is buffered iff a
\* region is open when it is reached, an account is current once the line's
\* own DP id and client id were looked up, and the line is neither a heading
\* nor a sentinel nor a transactions-section line.  Its words are appended, to
\* the buffer keyed by that account's type, the current asset class, that
\* account's DP id and client id and the current page, and no other buffer
\* changes.  The mutual-fund-units heading and the transactions-section line
\* open and close the region always, an asset-class heading and a 'portfolio
\* value' or 'grand total' line only while an account is current.  Every
\* buffer holds only words of the page of its key, and no line is buffered
\* twice.
C28_BufferedInOpenRegion ==
    [][ReadsDematLine =>
          LET l == DematLineRead
              taken == TakenByAccountRule(l)
              account == CurrentAfterLookup(l)
          IN /\ Buffers <=> /\ ~taken /\ dm_table /\ account # 0
                            /\ ~OpensRegion(l) /\ ~ClosesRegion(l)
             /\ Buffers => dm_tables' = Appended(CurrentKey(account))
             /\ dm_table' =
                   IF taken THEN dm_table
                   ELSE IF l.kind = "mfunits" THEN TRUE
                   ELSE IF l.kind = "transactions" THEN FALSE
                   ELSE IF account # 0 /\ l.kind = "heading" THEN TRUE
                   ELSE IF account # 0 /\ l.kind = "sentinel" THEN FALSE
                   ELSE dm_table
             /\ \A key \in DOMAIN dm_tables' :
                   \A i \in 1..Len(dm_tables'[key]) :
                       /\ dm_tables'[key][i][1] = key[5]
                       /\ \A other \in DOMAIN dm_tables' :
                             \A j \in 1..Len(dm_tables'[other]) :
                                 dm_tables'[other][j] = dm_tables'[key][i]
                                     => other = key /\ j = i]_vars

\* the rows of the first page are in the buffer of the mutual-fund folios for
\* page 1, those of the second page in a buffer of the first demat account
\* for page 2, under the asset class of the heading read just before
C28_Witness ==
    /\ dm_pc = "done" /\ dm_pageno = 2
    /\ <<"MF", "STOCK", "", "", 1>> \in DOMAIN dm_tables
    /\ dm_tables[<<"MF", "STOCK", "", "", 1>>] = << <<1, 8>> >>
    /\ <<"NSDL", "CORPORATE_BOND", "D1", "C1", 2>> \in DOMAIN dm_tables
    /\ dm_tables[<<"NSDL", "CORPORATE_BOND", "D1", "C1", 2>>] = << <<2, 3>> >>

----------------------------------------------------------------------------
(* Claims about recover_table_lines (SpecTable) *)

\* the words read so far that were not skipped: the first word of the buffer
\* is kept whatever its shape
TableKept ==
    {tb_words[i] : i \in {j \in 1..tb_i : j = 1 \/ ~table_is_vertical(tb_words[j].rect)}}
TableRow(k) == {tb_line_words[k][j] : j \in 1..Len(tb_line_words[k])}
TableRows == {TableRow(k) : k \in 1..Len(tb_line_words)}
\* the y-bands of two words do not meet
DisjointBands(w, v) == w.rect.y1 < v.rect.y0 \/ v.rect.y1 < w.rect.y0
\* the tops and bottoms of two words are further apart than the tolerance
Apart(w, v) ==
    /\ Abs(w.rect.y0 - v.rect.y0) > table_tolerance
    /\ Abs(w.rect.y1 - v.rect.y1) > table_tolerance
    /\ Abs(w.rect.y1 - v.rect.y0) > table_tolerance
    /\ Abs(w.rect.y0 - v.rect.y1) > table_tolerance
SameBand(w, v) == w.rect.y0 = v.rect.y0 /\ w.rect.y1 = v.rect.y1
\* the words of a row ordered by x0
OrderedByX0(ws) == \A i, j \in 1..Len(ws) : i < j => ws[i].rect.x0 <= ws[j].rect.x0
SameWordsAs(ws, vs) ==
    /\ Len(ws) = Len(vs)
    /\ \A i \in 1..Len(ws) : Count(ws, ws[i]) = Count(vs, ws[i])
RowsOrderedByX0 ==
    tb_pc = "done" =>
        /\ Len(tb_out) = Len(tb_line_words)
        /\ \A k \in 1..Len(tb_out) :
              /\ OrderedByX0(tb_out[k].word_pos)
              /\ SameWordsAs(tb_out[k].word_pos, tb_line_words[k])
              /\ tb_out[k].ltext = table_text(tb_out[k].word_pos)

----------------------------------------------------------------------------
(* Claims about pass 2 of process_statement (SpecSchemes) *)

\* the words a stock or bond row keeps: the ISIN and the words from the first
\* decimal on; none when the row has no ISIN or no decimal after it
KeptWords(row) ==
    LET isin_index == first_index(row, is_isin, 1)
        first_decimal_index == first_index(row, has_decimal, isin_index + 1)
    IN IF isin_index = 0 \/ first_decimal_index = 0 THEN <<>>
       ELSE <<row[isin_index]>> \o SubSeq(row, first_decimal_index, Len(row))
\* the rows of which the claim says that they produce no record
Unresolvable(row, scheme_type) ==
    \/ scheme_type = "STOCK" /\ Len(KeptWords(row)) < 5
    \/ scheme_type = "CORPORATE_BOND" /\ Len(KeptWords(row)) < 7
    \/ scheme_type = "MUTUAL_FUND" /\ Len(value_block(Tail(row))) \notin {6, 9}
\* the rows of the buffer that produce a record
Resolved(rows, key) ==
    SelectSeq(rows, LAMBDA row : extract_scheme_details(row, key.scheme_type, key.ac_type).scheme # <<>>)

\* C23 as stated: extract_scheme_details never raises, so pass 2 reads every
\* row of the buffer; a row is a record or is dropped; a stock row that keeps
\* fewer than 5 words, a bond row that keeps fewer than 7, a row without ISIN
\* or without decimal and a mutual-fund row whose value block has neither 6
\* nor 9 fields produce no record.
C23_UnresolvableRowsDropped ==
    /\ sd_pc # "raised" /\ sd_error = "None"
    /\ sd_key.ac_type \in {"CDSL", "MF"} =>
          \A i \in 1..sd_i :
              Unresolvable(sd_rows[i], sd_key.scheme_type) =>
                  extract_scheme_details(sd_rows[i], sd_key.scheme_type, sd_key.ac_type).scheme = <<>>
    /\ sd_pc = "done" => Len(sd_schemes) = Len(Resolved(sd_rows, sd_key))

----------------------------------------------------------------------------
(* Claims about the summary fold, continued (SpecSummary) *)

\* the names of the schemes created so far, appended or still current
SummaryNames ==
    [i \in 1..(Len(sm_schemes) + Len(sm_current)) |-> (sm_schemes \o sm_current)[i].scheme_name]

\* C24 as stated: once a row has been seen, a line with Total ends the
\* section; no step after it, on the same page or on a later one, creates a
\* scheme or changes the name of a scheme.
C24_TotalEndsSection ==
    [][sm_total => /\ sm_rows' = sm_rows
                   /\ SummaryNames' = SummaryNames]_vars

----------------------------------------------------------------------------
(* C25: the order of the rules of process_detailed_version                 *)

\* the step folds a line that gets past the AMC rule and the folio rule
AtLowerRules == ReadsLine /\ pc' = "fold" /\ line'.amc = None
                          /\ line'.folio \in {None, current_folio}
\* the context with which the line reaches the rules below the scheme rule
AfterSchemeRule == IF HeaderRead # None THEN scheme_rule(Ctx, HeaderRead) ELSE Ctx

\* the claimed table of rules: the first rule that matches the line, and no other
FirstRuleOnly(c, l, name) ==
    IF l.amc # None THEN [c EXCEPT !.amc = l.amc]
    ELSE IF l.folio \notin {None, c.folio} THEN folio_rule(c, <<l.folio, l.pan>>)
    ELSE IF name # None THEN scheme_rule(c, name)
    ELSE IF l.registrar # None THEN registrar_rule(c, l.registrar)
    ELSE IF c.scheme = <<>> THEN c
    ELSE IF l.nominees # <<>> THEN [c EXCEPT !.scheme[1].nominees = @ \o l.nominees]
    ELSE IF Truthy(l.open) THEN [c EXCEPT !.scheme[1] = open_rule(@, l.open)]
    ELSE IF l.val # NoVal THEN [c EXCEPT !.scheme[1] = extract_scheme_valuation(l, @)]
    ELSE IF l.txns # <<>> THEN [c EXCEPT !.scheme[1] = transactions_rule(@, l.txns)]
    ELSE c

\* C25 (as stated): each line is handled by the first rule that matches it in the
\* order AMC header, folio, scheme header, registrar, nominee, opening balance,
\* closing/valuation, transaction, and by no rule below that one.
C25_FirstRuleOnly ==
    [][ReadsLine /\ pc' = "fold" => Ctx' = FirstRuleOnly(Ctx, line', HeaderRead)]_vars

\* C25 (amended): an AMC line is handled by the AMC rule alone and a line with a new
\* folio by the folio rule alone; any other line first passes the scheme rule, which
\* does not end the line, and is then handled by the first of registrar, nominee and
\* opening balance that matches it, which ends the line; a line none of these three
\* match is handled by the transaction rule and then also by the valuation rule.
C25_RulesInOrder ==
    [][/\ ReadsLine /\ pc' = "fold" /\ line'.amc # None
            => UNCHANGED <<current_folio, current_pan, current_scheme,
                           current_registrar, schemes, created>>
       /\ AtFolioRule /\ pc' = "fold"
            => /\ current_scheme' = <<>> /\ schemes' = schemes \o current_scheme
               /\ UNCHANGED <<current_amc, current_registrar, created>>
       /\ AtLowerRules
            => LET l == line'
                   c == AfterSchemeRule
               IN /\ created' = c.created /\ schemes' = c.schemes
                  /\ UNCHANGED <<current_amc, current_folio, current_pan>>
                  /\ IF l.registrar # None
                     THEN Ctx' = registrar_rule(c, l.registrar)
                     ELSE /\ current_registrar' = c.registrar
                          /\ IF c.scheme = <<>> THEN current_scheme' = <<>>
                             ELSE IF l.nominees # <<>>
                             THEN current_scheme' =
                                    <<[c.scheme[1] EXCEPT !.nominees = @ \o l.nominees]>>
                             ELSE IF Truthy(l.open)
                             THEN current_scheme' = <<open_rule(c.scheme[1], l.open)>>
                             ELSE current_scheme' =
                                    <<extract_scheme_valuation(l,
                                        IF l.txns # <<>>
                                        THEN transactions_rule(c.scheme[1], l.txns)
                                        ELSE c.scheme[1])>>]_vars

\* a folio line, then a line with a scheme header and a registrar: the scheme was
\* created and its rta set by that one line
C25_Witness ==
    /\ pc = "fold" /\ nlines = 2 /\ created = 1
    /\ line = [Blank EXCEPT !.scheme = "S1", !.registrar = "R1"]
    /\ current_scheme # <<>>
    /\ current_scheme[1].scheme_name = "S1" /\ current_scheme[1].rta = "R1"

----------------------------------------------------------------------------
(* C26: the AMC rule                                                       *)

\* the step folds a line extract_amc matches
ReadsAmcLine == ReadsLine /\ line'.amc # None
\* the step creates a scheme
CreatesScheme == ReadsLine /\ created' = created + 1

\* C26: an AMC-header line changes only the current AMC: the current folio, PAN and
\* scheme with all its fields, the pending registrar and the output list are as they
\* were, so no scheme that exists takes the new AMC; a scheme created by a later
\* line carries the AMC current at that line.
C26_AmcLineChangesOnlyAmc ==
    [][/\ ReadsAmcLine
            => /\ pc' = "fold"
               /\ current_amc' = line'.amc
               /\ UNCHANGED <<current_folio, current_pan, current_scheme,
                              current_registrar, schemes, created>>
               /\ AllSchemes' = AllSchemes
       /\ CreatesScheme
            => /\ line'.amc = None
               /\ current_scheme' # <<>>
               /\ current_scheme'[1].id = created'
               /\ current_scheme'[1].amc = current_amc
               /\ \A s \in AllSchemes' : s.id # created' => s \in AllSchemes]_vars

\* the scheme created before the AMC line was read has kept its empty AMC, and the
\* scheme created after the line carries the AMC of the line
C26_Witness ==
    /\ pc = "fold" /\ created = 2 /\ current_amc = "A1"
    /\ Len(schemes) = 1 /\ schemes[1].amc = None
    /\ current_scheme # <<>> /\ current_scheme[1].amc = "A1"
    /\ current_folio = "F2"

----------------------------------------------------------------------------
(* C27: the registrar, before or after its scheme                          *)

\* the step folds a line that reaches the registrar rule and that extract_registrar
\* matches
ReadsRegistrarLine == AtLowerRules /\ line'.registrar # None
\* a scheme is current when the line reaches the registrar rule
SchemeAtRegistrarRule == current_scheme # <<>> \/ HeaderRead # None
\* the current scheme goes on as the current scheme, whatever the line did to it
SameScheme == /\ current_scheme # <<>> /\ current_scheme' # <<>>
              /\ current_scheme'[1].id = current_scheme[1].id

----------------------------------------------------------------------------
(* C31: recover_table_lines against recover_lines                          *)

\* parser.py 208-223: the loop over words[1:], with the tolerance and the
\* vertical factor the caller passes
RECURSIVE scan_words(_, _, _, _, _, _)
scan_words(ws, lines, cur, lrect, tol, factor) ==
    IF ws = <<>> THEN Append(lines, closed_line(cur, lrect))
    ELSE LET w == Head(ws) IN
         IF Abs(w.rect.x1 - w.rect.x0) * factor < Abs(w.rect.y1 - w.rect.y0)
         THEN scan_words(Tail(ws), lines, cur, lrect, tol, factor)
         ELSE IF Abs(lrect.y0 - w.rect.y0) <= tol \/ Abs(lrect.y1 - w.rect.y1) <= tol
         THEN scan_words(Tail(ws), lines, Append(cur, w), RectUnion(lrect, w.rect), tol, factor)
         ELSE scan_words(Tail(ws), Append(lines, closed_line(cur, lrect)), <<w>>, w.rect,
                         tol, factor)

\* parser.py 183-231: recover_lines(words, tolerance, vertical_factor)
recover_lines(words, tol, factor) ==
    yielded(sorted_by_y1(scan_words(Tail(words), <<>>, <<words[1]>>, words[1].rect, tol, factor)))

\* the rows of the buffer as recover_lines clusters them with the tolerance of
\* recover_table_lines
LinesOfBuffer == recover_lines(tb_words, table_tolerance, vertical_factor)
\* the words recover_table_lines keeps, in the order of the buffer
KeptInOrder ==
    SelectSeq([i \in 1..Len(tb_words) |-> [at |-> i, word |-> tb_words[i]]],
              LAMBDA e : e.at = 1 \/ ~table_is_vertical(e.word.rect))
\* both filters for vertical glyphs keep the same words of the buffer
SameFilter ==
    \A i \in 2..Len(tb_words) : is_vertical(tb_words[i].rect) = table_is_vertical(tb_words[i].rect)
\* the kept words lie on bands that are further apart than the tolerance, and
\* come band after band from the top of the page down
BandAfterBand ==
    /\ \A i, j \in 1..Len(KeptInOrder) :
          \/ SameBand(KeptInOrder[i].word, KeptInOrder[j].word)
          \/ Apart(KeptInOrder[i].word, KeptInOrder[j].word)
    /\ \A i, j \in 1..Len(KeptInOrder) :
          i < j => KeptInOrder[i].word.rect.y1 <= KeptInOrder[j].word.rect.y1
NoSoftHyphen == \A i \in 1..Len(tb_words) : without_soft_hyphen(tb_words[i].text) = tb_words[i].text

\* C31 (as stated): for every buffer of words recover_table_lines yields the rows
\* recover_lines yields for the same words and the same tolerance: the same
\* partition of the words, the same words skipped as vertical, the same texts in
\* the same order.
C31_SameRowsAsRecoverLines ==
    tb_pc = "done" => tb_out = LinesOfBuffer

\* C31 (amended): recover_table_lines yields the rows of recover_lines for the
\* same words and tolerance when both filters for vertical glyphs keep the same
\* words, the kept words lie on bands further apart than the tolerance and come
\* band after band from the top of the page down, and no word holds a soft hyphen.
C31_SameRowsOnSeparatedBands ==
    (tb_pc = "done" /\ SameFilter /\ BandAfterBand /\ NoSoftHyphen) => tb_out = LinesOfBuffer

\* two bands, the words of the first from right to left: both yield two rows
C31_Witness ==
    /\ tb_pc = "done"
    /\ tb_words = << WordData(Rect(120, 100, 150, 110), "10.000"),
                     WordData(Rect(10, 100, 40, 110), "INE001"),
                     WordData(Rect(10, 130, 40, 140), "INE003") >>
    /\ SameFilter /\ BandAfterBand /\ NoSoftHyphen
    /\ Len(tb_out) = 2 /\ tb_out[1].ltext = "INE001 10.000"
    /\ tb_out = LinesOfBuffer

----------------------------------------------------------------------------
(* C32: the tail of a scheme name in process_summary_version               *)

\* the step reads a line SUMMARY_ROW does not match, before any Total line that
\* came after a row
ReadsTailLine ==
    /\ sm_pc = "scan" /\ sm_lines' = sm_lines + 1
    /\ sm_line'.row = <<>> /\ ~sm_total'

\* C32: a line that is no summary row and comes after a scheme row, before the
\* Total line, is appended with a single space to the name of the scheme
\* recognised last and changes no other scheme; such a line before the first
\* scheme row changes nothing.
C32_TailJoinsLastName ==
    [][ReadsTailLine =>
          /\ UNCHANGED <<sm_schemes, sm_folio, sm_rows, sm_pc>>
          /\ IF sm_rows = 0
             THEN sm_current = <<>> /\ sm_current' = <<>>
             ELSE /\ sm_current # <<>> /\ sm_current[1].id = sm_rows
                  /\ sm_current' =
                        <<[sm_current[1] EXCEPT !.scheme_name = @ \o <<sm_line'.text>>]>>]_vars

\* two rows, each followed by a line that is no row: each name has its own tail
C32_Witness ==
    /\ sm_pc = "scan" /\ sm_lines = 4 /\ sm_rows = 2 /\ ~sm_total
    /\ sm_line = [row |-> <<>>, total |-> FALSE, text |-> "tail"]
    /\ Len(sm_schemes) = 1 /\ sm_schemes[1].scheme_name = <<"S1", "tail">>
    /\ sm_current # <<>> /\ sm_current[1].scheme_name = <<"S1", "tail">>

----------------------------------------------------------------------------
(* C33: the pages of parse_pdf are independent of each other               *)

\* the PageData of one page computed on its own, from its words alone
PageAlone(p) ==
    IF skips_page(pg_nsdl, p - 1, pg_words[p]) THEN <<>>
    ELSE <<PageData(recover_lines(pg_words[p], tolerance, vertical_factor),
                    get_header_positions(pg_words[p]))>>
\* the document data of the run that takes page after page
SequentialDocument == PageAlone(1) \o PageAlone(2)

\* C33: whatever the interleaving of the steps of recover_lines and
\* get_header_positions of the pages, the document data assembled in page order
\* is the document data of the sequential run, and while the pages are computed
\* the lines and headers a page has finished are those of its words alone.
C33_PagesIndependent ==
    /\ pg_pc = "assembled" => pg_doc = SequentialDocument
    /\ pg_pc = "pages" =>
          \A p \in Pages :
             pg_job[p].pc = "done" =>
                <<PageData(pg_job[p].out, pg_job[p].headers)>> = PageAlone(p)

\* two pages with words, the second with a header label: both in the document,
\* in page order
C33_Witness ==
    /\ pg_pc = "assembled" /\ ~pg_nsdl
    /\ pg_words[1] = << WordData(Rect(10, 100, 30, 112), "Fund"),
                        WordData(Rect(1, 100, 3, 140), "|") >>
    /\ pg_words[2] = << WordData(Rect(10, 100, 30, 112), "Fund"),
                        WordData(Rect(100, 80, 150, 92), "Amount") >>
    /\ Len(pg_doc) = 2
    /\ DOMAIN pg_doc[1].headers_data = {} /\ DOMAIN pg_doc[2].headers_data = {"amount"}
    /\ pg_doc[2].lines_data[1].ltext = "Amount"

----------------------------------------------------------------------------
(* C34: a scheme header read again for the current scheme                  *)

\* the step reads a header with the name of the scheme that is current
ReadsHeaderOfCurrent ==
    /\ AtSchemeRule /\ pc' = "fold"
    /\ current_scheme # <<>> /\ current_scheme[1].scheme_name = HeaderRead
StartsWith(ws, vs) == Len(vs) <= Len(ws) /\ SubSeq(ws, 1, Len(vs)) = vs

\* C34 as stated: a header read again for the scheme that is current loses nothing
\* of that scheme: its registrar, nominees, opening units, close_calculated and
\* transactions are on the current scheme after the line, apart from what the
\* line itself adds, and the header puts no scheme in the output.
C34_HeaderAgainKeepsData ==
    [][ReadsHeaderOfCurrent =>
          /\ schemes' = schemes
          /\ current_scheme' # <<>>
          /\ LET s == current_scheme[1]
                 t == current_scheme'[1]
             IN /\ line'.registrar = None => t.rta = s.rta
                /\ StartsWith(t.nominees, s.nominees)
                /\ StartsWith(t.transactions, s.transactions)
                /\ ~Truthy(line'.open) =>
                      /\ t.open = s.open
                      /\ Val(t.close_calculated) =
                            Val(s.close_calculated)
                            + SumUnits(SubSeq(t.transactions, Len(s.transactions) + 1,
                                              Len(t.transactions)))]_vars

----------------------------------------------------------------------------
(* C35: to which scheme and folio a transaction goes                       *)

\* a line that only the transaction rule matches
TransactionsOnly(l) ==
    /\ l.txns # <<>> /\ l.amc = None /\ l.folio = None /\ ~HeaderOnLine(l)
    /\ l.registrar = None /\ l.nominees = <<>> /\ ~Truthy(l.open) /\ l.val = NoVal

\* C35 as stated: no scheme of the output holds transactions of a line that came
\* before the line of its header; a scheme is created with the folio of the last
\* folio line, which is not null, and keeps it; every scheme of the output has a
\* folio; and a transaction line read while no scheme is current changes nothing.
C35_Attribution ==
    [][/\ pc' = "folded" =>
             \A i \in 1..Len(schemes') :
                schemes'[i].id \notin ahead' /\ schemes'[i].folio # None
       /\ (ReadsLine /\ pc' = "fold") =>
             /\ CreatesScheme =>
                   current_scheme'[1].folio = current_folio /\ current_folio # None
             /\ current_scheme' # <<>> => current_scheme'[1].folio = current_folio'
             /\ (TransactionsOnly(line') /\ current_scheme = <<>>) =>
                   UNCHANGED <<current_amc, current_folio, current_pan, current_scheme,
                               current_registrar, schemes, created>>]_vars

----------------------------------------------------------------------------
(* C37: the fold across the pages of the document                          *)

\* the transactions the scheme of that identity holds before the step
TransactionsBefore(id) ==
    LET old == {o \in AllSchemes : o.id = id}
    IN IF old = {} THEN <<>> ELSE (CHOOSE o \in old : TRUE).transactions
\* the step reads the first line of a page after the first
ReadsFirstLineOfNextPage == ReadsLine /\ peek = "eop" /\ nlines >= 1
\* the transactions of the line were appended to the current scheme
AppendsTransactions ==
    /\ ReadsLine /\ pc' = "fold" /\ line'.txns # <<>> /\ current_scheme' # <<>>
    /\ current_scheme'[1].transactions # TransactionsBefore(current_scheme'[1].id)

\* C37: the first line of a page is folded with the context the last line of the
\* page before left, as any other line is; when that line matches no rule the
\* context stays as it was, so the change of page alone finalizes and creates
\* nothing; the page of the loop changes only there; and the transactions of a
\* line are extracted with the headers of the page of that line.
C37_ContextAcrossPages ==
    [][/\ (ReadsFirstLineOfNextPage /\ pc' = "fold") =>
             /\ fold_page' = fold_page + 1
             /\ Ctx' = fold_line(Ctx, line', peek').ctx
             /\ (line' = Blank /\ HeaderRead = None) =>
                   UNCHANGED <<current_amc, current_folio, current_pan, current_scheme,
                               current_registrar, schemes, created>>
       /\ (ReadsLine /\ peek # "eop") => fold_page' = fold_page
       /\ AppendsTransactions => txn_headers' = fold_page'
       /\ txn_headers' # txn_headers => (ReadsLine /\ txn_headers' = fold_page')]_vars

\* a folio line, a scheme header and a transaction line, each on a page of its own:
\* the scheme of the second page took the transactions of the third, read with
\* the headers of the third
C37_Witness ==
    /\ pc = "fold" /\ nlines = 3 /\ fold_page = 3 /\ txn_headers = 3
    /\ created = 1 /\ schemes = <<>>
    /\ current_scheme # <<>> /\ current_scheme[1].transactions = <<TxnBuy>>
    /\ line = [Blank EXCEPT !.txns = <<TxnBuy>>]

----------------------------------------------------------------------------
(* The Reconciler's last balance and the fold's close_calculated (Spec) *)

\* the Reconciler re-sorted the i-th scheme of the output
ReSorted(i) ==
    /\ pc = "returned" /\ result[1].sorted
    /\ ~IsDateOrdered(schemes[i].transactions)
LastBalance(s) == s.transactions[Len(s.transactions)].balance

\* C36 (as stated): for a scheme the Reconciler re-sorted, the balance of the last
\* transaction of the reconciled list equals the close_calculated the fold
\* computed for the scheme.
C36_LastBalanceIsCloseCalculated ==
    \A i \in 1..Len(schemes) :
        ReSorted(i) => LastBalance(result[1].schemes[i]) = schemes[i].close_calculated

\* C36 (amended): for a scheme the Reconciler re-sorted, the balance of the last
\* transaction of the reconciled list is open plus the sum of the non-null units
\* of all the scheme's transactions; close_calculated is open plus the units of
\* the transactions that followed the scheme's last opening-balance line, so the
\* two are equal when no opening-balance line followed a transaction.
C36_LastBalanceIsOpenPlusUnits ==
    \A i \in 1..Len(schemes) :
        ReSorted(i) =>
            LET s == schemes[i]
                last == LastBalance(result[1].schemes[i])
            IN /\ last = Num(Val(s.open) + SumUnits(s.transactions))
               /\ s.close_calculated = Num(Val(s.open) + SumUnits(TxnsSince(s)))
               /\ s.open_at = 0 => last = s.close_calculated

\* a re-sorted scheme that took its opening balance before its transactions, the
\* units of which do not cancel
C36_Witness ==
    /\ Len(schemes) = 1
    /\ ReSorted(1)
    /\ schemes[1].open_at = 0 /\ Val(schemes[1].open) # 0
    /\ SumUnits(schemes[1].transactions) # 0
    /\ LastBalance(result[1].schemes[1]) = schemes[1].close_calculated

----------------------------------------------------------------------------
(* The words of a page and the words of its lines (SpecLines) *)

\* the words recover_lines does not skip: words[0], and each later word that is
\* not a vertical element
NotSkipped(ws) ==
    <<ws[1]>> \o SelectSeq(Tail(ws), LAMBDA w : ~is_vertical(w.rect))
RECURSIVE WordsOfLines(_)
WordsOfLines(ls) == IF ls = <<>> THEN <<>> ELSE Head(ls).word_pos \o WordsOfLines(Tail(ls))

\* C38: the words of the lines recover_lines emits are, word for word, the first
\* word of the page and the later words that are not vertical: each of them is in
\* one line, once, and a line holds no other word.  While the page is scanned
\* the closed lines and the current line hold the words kept so far.
C38_WordConservation ==
    /\ rl_pc = "done" => SameWords(WordsOfLines(rl_out), NotSkipped(rl_words))
    /\ rl_pc = "scan" =>
          SameWords(WordsOfLines(rl_lines) \o rl_line,
                    NotSkipped(SubSeq(rl_words, 1, rl_i - 1)))

\* a page that starts with a vertical word, holds it again later and then a word
\* of another line: two lines, the first holding the vertical word once
C38_Witness ==
    /\ rl_pc = "done"
    /\ Len(rl_words) = 3
    /\ is_vertical(rl_words[1].rect)
    /\ rl_words[2] = rl_words[1]
    /\ Len(rl_out) = 2
    /\ rl_out[2].word_pos = <<rl_words[1]>>

----------------------------------------------------------------------------
(* The holders of an account after its creation (SpecDemat) *)

\* the owners an account holds: the content of the list its holders field refers to
HoldersOf(accounts, lists, a) == lists[accounts[a].holders]

\* C39 (as stated): the holders of a DematAccount are fixed at its creation: no
\* line read after the account was created, in any order of holder, account
\* header, DP/client-id and MF lines, changes the holders of an account that
\* exists.
C39_HoldersFixedAtCreation ==
    [][\A a \in 1..Len(dm_accounts) :
          HoldersOf(dm_accounts', dm_lists', a) = HoldersOf(dm_accounts, dm_lists, a)]_vars

====
